---- MODULE Spec2Model ----
(***************************************************************************)
(* Model of the E2Toolkit synchronisation core (app/connections.py) and of *)
(* the main-window handlers that start it (app/ui/main.py).                *)
(*                                                                         *)
(* A sync run (upload_data, or DataLoader.run around download_data) is a   *)
(* sequential program: pc is its position, events is the ordered record of *)
(* everything it did on the wire (FTP, telnet, HTTP) and on the progress   *)
(* channel.  The receiver's answers and the directory listings are inputs  *)
(* drawn with \E at the step that reads them.                              *)
(***************************************************************************)
EXTENDS Integers, Sequences, FiniteSets, TLC

(***************************************************************************)
(* File names are sequences of characters, so that str.endswith and        *)
(* str.startswith are computed, not tabulated.                             *)
(***************************************************************************)
N_userbouquet == <<"u","s","e","r","b","o","u","q","u","e","t",".","a",".","t","v">>
N_radio == <<"b",".","r","a","d","i","o">>
N_lamedb == <<"l","a","m","e","d","b">>
N_satellites == <<"s","a","t","e","l","l","i","t","e","s",".","x","m","l">>
N_terrestrial == <<"t","e","r","r","e","s","t","r","i","a","l",".","x","m","l">>
N_cables == <<"c","a","b","l","e","s",".","x","m","l">>
N_picon == <<"c",".","p","n","g">>

BQ_FILES_LIST == << <<"t","v">>, <<"r","a","d","i","o">> >>
DATA_FILES_LIST == << <<"l","a","m","e","d","b">>, <<"l","a","m","e","d","b","5">>,
                      <<"b","l","a","c","k","l","i","s","t">>,
                      <<"w","h","i","t","e","l","i","s","t">> >>
STC_XML_FILE == << N_satellites, N_terrestrial, N_cables >>
PICONS_SUF == << <<".","j","p","g">>, <<".","p","n","g">> >>
BQ_PREFIXES == << <<"u","s","e","r","b","o","u","q","u","e","t",".">>,
                  <<"b","o","u","q","u","e","t","s",".","x","m","l">>,
                  <<"u","b","o","u","q","u","e","t","s",".","x","m","l">> >>

DownloadType == {"ALL", "BOUQUETS", "SATELLITES", "PICONS", "EPG"}

(* Bounds of the model. *)
MaxFiles == 2
MaxFaults == 1
MaxSyncs == 2

(* The names a directory of the model can hold. *)
Names == {N_userbouquet, N_radio, N_lamedb, N_satellites, N_picon}

Range(s) == {s[i] : i \in 1..Len(s)}

(* Directory listings: sequences of distinct names, at most MaxFiles long. *)
Listings == UNION {{s \in [1..n -> Names] : \A i, j \in 1..n : i # j => s[i] # s[j]} : n \in 0..MaxFiles}

(* str.endswith(suffix) and str.endswith(tuple of suffixes) *)
EndsWith(s, suf) == /\ Len(suf) <= Len(s)
                    /\ SubSeq(s, Len(s) - Len(suf) + 1, Len(s)) = suf

EndsWithAny(s, sufs) == \E i \in 1..Len(sufs) : EndsWith(s, sufs[i])

(* str.startswith(tuple of prefixes) *)
StartsWithAny(s, pres) == \E i \in 1..Len(pres) : /\ Len(pres[i]) <= Len(s)
                                                  /\ SubSeq(s, 1, Len(pres[i])) = pres[i]

(* Mutation of Filter: every listed name passes. *)
Filter_Unfiltered(listing, accepted) == listing

(* filter(pred, listing), with pred given as the set of names it accepts *)
Filter(listing, accepted) == LET Test(f) == f \in accepted IN SelectSeq(listing, Test)

(* The files_filter argument: given = FALSE is None. *)
NoFilter == [given |-> FALSE, names |-> {}]

FilterChoices == {NoFilter, [given |-> TRUE, names |-> {}],
                  [given |-> TRUE, names |-> {N_picon}],
                  [given |-> TRUE, names |-> {N_lamedb}]}

(* picons_filter_function: an empty set is falsy, as None is. *)
picons_filter_function(ff, f) == IF ff.given /\ ff.names # {} THEN f \in ff.names
                                 ELSE EndsWithAny(f, PICONS_SUF)

(***************************************************************************)
(* Replies of the receiver to one protocol step.                           *)
(*   "ok"   the step succeeded                                             *)
(*   "550"  ftplib.error_perm, code 550 (no such file or directory)        *)
(*   "530"  ftplib.error_perm, another 5xx code                            *)
(*   "421"  ftplib.error_temp (an ftplib.Error that is not error_perm)     *)
(*   "os"   OSError / EOFError of the transport                            *)
(***************************************************************************)
FailReplies == {"550", "530", "421", "os"}

IsErrorPerm(r) == r \in {"550", "530"}

IsFtpError(r) == r \in {"550", "530", "421"}

ExcOf(r) == IF IsErrorPerm(r) THEN "error_perm" ELSE IF r = "421" THEN "error_temp" ELSE "OSError"

VARIABLES
    mode,           \* "upload_data" | "loader_download" | "loader_upload" | "remove_picons" | "idle"
    dtype,          \* download_type
    http,           \* upload_data: an http client was supplied
    remove_unused,  \* upload_data: remove_unused
    files_filter,   \* files_filter
    localDir,       \* listing of the local directory an upload reads
    pc,             \* position of the sync run
    events,         \* what the run did so far, in order
    tn,             \* the telnet generator: none, created, yield1..3, finished, closed
    sock,           \* the Telnet session inside it: none, open, closed, lost
    cwdDir,         \* remote working directory of the FTP session
    listing,        \* download: per remote directory, the name listing read of it (nlst)
    todo,           \* entries of the current loop still to handle
    exc,            \* exception propagating out of download_data / upload_data
    faults,         \* failed steps so far
    download_tool_button,  \* main window: the download button is enabled
    upload_tool_button,    \* main window: the upload button is enabled
    workers,        \* main window: started workers, by id
    queue,          \* main window: signals queued to the GUI thread
    uilog,          \* main window: what the GUI thread handled, in order
    cpc,            \* codecs: position of a parse / write / check run
    dom,            \* satxml: the satellites.xml document read
    satellites,     \* satxml: the list of Satellite tuples
    doc,            \* satxml: the document written
    satlog,         \* satxml: number of messages logged by the parse
    checked,        \* satxml: transponder and result of is_transponder_valid
    service,        \* iptv: the Service held for a stream (picon_id, name, data_id, fav_id)
    previous,       \* iptv: the Service as it was before the dialog saved it
    loaded,         \* iptv: the Service append_bouquet builds of the fav_id
    flag_token,     \* Flag.parse: the token
    flag_value,     \* Flag.parse: the result
    flag_other,     \* a second flag integer, combined with the parsed one
    flag_tests,     \* the results of Flag.is_keep, is_hide, is_pids, is_new
    _auth,          \* HttpAPI: number of authentication challenges handled
    _token,         \* HttpAPI: the session id posted with every request
    _callbacks,     \* HttpAPI: the requests a callback is registered for
    http_sent,      \* HttpAPI: the requests posted, in order, and who posted them
    pending,        \* HttpAPI: the posted requests whose reply has not finished
    handled,        \* HttpAPI: what the last handle_response did
    test_env,       \* connection test: what the network and the receiver do
    test_out,       \* connection test: what test_ftp / test_telnet returned or raised
    file_in,        \* UtfFTP file operations: the call and what the receiver answers
    file_calls,     \* UtfFTP file operations: the calls made and their status lines
    local_fs        \* UtfFTP file operations: the local files, by name

syncVars == <<mode, dtype, http, remove_unused, files_filter, localDir, pc, events, tn, sock,
              cwdDir, listing, todo, exc, faults>>

uiVars == <<download_tool_button, upload_tool_button, workers, queue, uilog>>

satVars == <<dom, satellites, doc, satlog, checked>>

iptvVars == <<service, previous, loaded>>

flagVars == <<flag_token, flag_value, flag_other, flag_tests>>

httpVars == <<_auth, _token, _callbacks, http_sent, pending, handled>>

testVars == <<test_env, test_out>>

fileVars == <<file_in, file_calls, local_fs>>

codecVars == <<cpc, satVars, iptvVars, flagVars, httpVars, testVars, fileVars>>

vars == <<syncVars, uiVars, codecVars>>

Ev(op, arg, res) == [op |-> op, arg |-> arg, res |-> res, dir |-> cwdDir]

Emit(es) == events' = events \o es

(* Replies a step can get: a failure only while the fault budget lasts. *)
Replies == IF faults < MaxFaults THEN {"ok"} \cup FailReplies ELSE {"ok"}

Count(r) == faults' = IF r = "ok" THEN faults ELSE faults + 1

(* The remote directories of the FTP session. *)
Dirs == {"login", "services", "xml", "picons"}

NoListing == [d \in Dirs |-> <<>>]

(* Mutation of UpRaise: the exception is set aside and the upload goes on   *)
(* with its control step after the transfer.                                *)
UpRaise_Resume(e) == /\ exc' = e
                     /\ pc' = "up_resume"

(* An exception leaves the with-block of upload_data: on to its finally. *)
UpRaise(e) == /\ exc' = e
              /\ pc' = "up_finally"

UiIdle == /\ download_tool_button = TRUE
          /\ upload_tool_button = TRUE
          /\ workers = <<>>
          /\ queue = <<>>
          /\ uilog = <<>>

(* No satellites.xml document, model or check. *)
SatIdle == /\ dom = <<>>
           /\ satellites = <<>>
           /\ doc = <<>>
           /\ satlog = 0
           /\ checked = <<>>

NoService == [picon_id |-> <<>>, name |-> <<>>, data_id |-> <<>>, fav_id |-> <<>>]

(* No stream service. *)
IptvIdle == /\ service = NoService
            /\ previous = NoService
            /\ loaded = NoService

NoValue == [raised |-> FALSE, value |-> 0]

(* No flag token. *)
FlagIdle == /\ flag_token = <<>>
            /\ flag_value = NoValue
            /\ flag_other = 0
            /\ flag_tests = <<>>

NoOutcome == [req |-> "", er |-> "", body |-> [xml |-> FALSE, data |-> ""],
              callback |-> FALSE, calls |-> <<>>, parsed |-> FALSE, raised |-> FALSE]

(* No HttpAPI object. *)
HttpIdle == /\ _auth = 0
            /\ _token = "0"
            /\ _callbacks = {}
            /\ http_sent = <<>>
            /\ pending = {}
            /\ handled = NoOutcome

NoOut == [kind |-> "none", type |-> "", value |-> <<>>]

(* No connection test. *)
TestIdle == /\ test_env = <<>>
            /\ test_out = NoOut

(* No UtfFTP file operation. *)
FileIdle == /\ file_in = <<>>
            /\ file_calls = <<>>
            /\ local_fs = <<>>

(* No codec run. *)
CodecIdle == /\ cpc = "idle"
             /\ SatIdle
             /\ IptvIdle
             /\ FlagIdle
             /\ HttpIdle
             /\ TestIdle
             /\ FileIdle

SyncIdle == /\ mode = "idle"
            /\ dtype = "ALL"
            /\ http = FALSE
            /\ remove_unused = FALSE
            /\ files_filter = NoFilter
            /\ localDir = <<>>
            /\ pc = "idle"
            /\ events = <<>>
            /\ tn = "none"
            /\ sock = "none"
            /\ cwdDir = "none"
            /\ listing = NoListing
            /\ todo = <<>>
            /\ exc = "none"
            /\ faults = 0

(***************************************************************************)
(* upload_data                                                             *)
(***************************************************************************)

(* Mutation of UpFirstPhase: upload_xml runs for BOUQUETS too. *)
UpFirstPhase_XmlAlways == CASE dtype \in {"SATELLITES", "ALL", "BOUQUETS"} -> "up_xml_cwd"
                            [] dtype = "PICONS" -> "up_pic_cwd"
                            [] OTHER -> "up_resume"

(* The first transfer step of each download_type, after "FTP OK." *)
UpFirstPhase == CASE dtype \in {"SATELLITES", "ALL"} -> "up_xml_cwd"
                  [] dtype = "BOUQUETS" -> "up_srv_cwd"
                  [] dtype = "PICONS" -> "up_pic_cwd"
                  [] OTHER -> "up_resume"

(* Mutation of UpStart: the telnet branch is not the else of "if http". *)
UpStart_TelnetAlways == /\ pc = "up_start"
                        /\ Emit(IF http THEN <<Ev("HTTP", <<"message">>, "ok")>> ELSE <<>>)
                        /\ IF dtype # "PICONS"
                           THEN /\ tn' = "created"
                                /\ pc' = "up_tn_next"
                           ELSE /\ pc' = "up_ftp"
                                /\ UNCHANGED tn
                        /\ UNCHANGED <<mode, dtype, http, remove_unused, files_filter, localDir,
                                       sock, cwdDir, listing, todo, exc, faults, uiVars, codecVars>>

(* The control step before the transfer: HTTP notification, or telnet. *)
UpStart == /\ pc = "up_start"
           /\ IF http
              THEN /\ Emit(<<Ev("HTTP", <<"message">>, "ok")>>
                           \o IF dtype = "ALL" THEN <<Ev("HTTP", <<"powerstate?newstate=0">>, "ok")>>
                              ELSE <<>>)
                   /\ pc' = "up_ftp"
                   /\ UNCHANGED tn
              ELSE IF dtype # "PICONS"
                   THEN /\ tn' = "created"
                        /\ pc' = "up_tn_next"
                        /\ UNCHANGED events
                   ELSE /\ pc' = "up_ftp"
                        /\ UNCHANGED <<tn, events>>
           /\ UNCHANGED <<mode, dtype, http, remove_unused, files_filter, localDir, sock, cwdDir,
                          listing, todo, exc, faults, uiVars, codecVars>>

(* next(tn): the generator runs to its first yield, connecting the session. *)
(* A socket.timeout is logged inside the generator, which then returns: the *)
(* caller's next() raises StopIteration.                                    *)
UpTelnetNext == /\ pc = "up_tn_next"
                /\ \E r \in IF faults < MaxFaults THEN {"ok", "timeout", "os"} ELSE {"ok"} :
                      /\ Count(r)
                      /\ CASE r = "ok" -> /\ tn' = "yield1"
                                          /\ sock' = "open"
                                          /\ Emit(<<Ev("TN_CONNECT", <<>>, r),
                                                    Ev("CB", <<"Telnet initialization ...">>, "msg")>>)
                                          /\ pc' = "up_tn_stop"
                                          /\ UNCHANGED exc
                           [] r = "timeout" -> /\ tn' = "finished"
                                               /\ Emit(<<Ev("TN_CONNECT", <<>>, r),
                                                         Ev("LOG", <<"telnet error: socket timeout">>, "msg")>>)
                                               /\ UpRaise("StopIteration")
                                               /\ UNCHANGED sock
                           [] OTHER -> /\ tn' = "finished"
                                       /\ Emit(<<Ev("TN_CONNECT", <<>>, r)>>)
                                       /\ UpRaise("OSError")
                                       /\ UNCHANGED sock
                /\ UNCHANGED <<mode, dtype, http, remove_unused, files_filter, localDir, cwdDir,
                               listing, todo, uiVars, codecVars>>

(* Mutation of TelnetLogin: the command is written before the login. *)
TelnetLogin_CommandFirst(command) == <<Ev("TN", <<command>>, "ok"), Ev("TN", <<"user">>, "ok"),
                                       Ev("TN", <<"password">>, "ok")>>

(* Mutation of TelnetLogin: the command passed to send is not written. *)
TelnetLogin_NoCommand(command) == <<Ev("TN", <<"user">>, "ok"), Ev("TN", <<"password">>, "ok")>>

(* The writes of tn.send(command) from the first yield: login, then command. *)
TelnetLogin(command) == <<Ev("TN", <<"user">>, "ok"), Ev("TN", <<"password">>, "ok"),
                          Ev("TN", <<command>>, "ok")>>

(* tn.send("init 4"): login and the stop command; the generator stops at    *)
(* its second yield.  A lost connection raises out of the generator after   *)
(* k of the writes, at the next one.  (settings.user and settings.password  *)
(* are taken to be set, as they are for the FTP login of the same upload.)  *)
UpTelnetStop == /\ pc = "up_tn_stop"
                /\ \/ /\ Emit(TelnetLogin("init 4") \o <<Ev("CB", <<"Stopping GUI...">>, "msg")>>)
                      /\ tn' = "yield2"
                      /\ pc' = "up_ftp"
                      /\ UNCHANGED <<sock, exc, faults>>
                   \/ /\ faults < MaxFaults
                      /\ \E k \in 0..(Len(TelnetLogin("init 4")) - 1) :
                            Emit(SubSeq(TelnetLogin("init 4"), 1, k)
                                 \o <<[TelnetLogin("init 4")[k + 1] EXCEPT !.res = "os"]>>)
                      /\ faults' = faults + 1
                      /\ tn' = "finished"
                      /\ sock' = "lost"
                      /\ UpRaise("OSError")
                /\ UNCHANGED <<mode, dtype, http, remove_unused, files_filter, localDir, cwdDir,
                               listing, todo, uiVars, codecVars>>

(* with UtfFTP(host, user, passwd) as ftp: connect and login. *)
UpFtpConnect == /\ pc = "up_ftp"
                /\ \E r \in Replies \ {"550", "421"} :
                      /\ Count(r)
                      /\ IF r = "ok"
                         THEN /\ cwdDir' = "login"
                              /\ Emit(<<Ev("CONNECT", <<>>, r), Ev("CB", <<"FTP OK.">>, "msg")>>)
                              /\ pc' = UpFirstPhase
                              /\ UNCHANGED exc
                         ELSE /\ Emit(<<Ev("CONNECT", <<>>, r)>>)
                              /\ UpRaise(ExcOf(r))
                              /\ UNCHANGED cwdDir
                /\ UNCHANGED <<mode, dtype, http, remove_unused, files_filter, localDir, tn, sock,
                               listing, todo, uiVars, codecVars>>

(* Mutation of UpCwd: a failed cwd is caught and the upload goes on. *)
UpCwd_Swallow(at, dir, next, nextTodo) == /\ pc = at
                                          /\ \E r \in Replies :
                                                /\ Count(r)
                                                /\ Emit(<<Ev("CWD", <<dir>>, r)>>)
                                                /\ cwdDir' = IF r = "ok" THEN dir ELSE cwdDir
                                          /\ pc' = next
                                          /\ todo' = nextTodo
                                          /\ UNCHANGED <<mode, dtype, http, remove_unused, files_filter,
                                                         localDir, tn, sock, listing, exc, uiVars, codecVars>>

(* ftp.cwd(path) of upload_data and upload_xml: any failure propagates. *)
UpCwd(at, dir, next, nextTodo) == /\ pc = at
                                  /\ \E r \in Replies :
                                        /\ Count(r)
                                        /\ Emit(<<Ev("CWD", <<dir>>, r)>>)
                                        /\ IF r = "ok"
                                           THEN /\ cwdDir' = dir
                                                /\ pc' = next
                                                /\ todo' = nextTodo
                                                /\ UNCHANGED exc
                                           ELSE /\ UpRaise(ExcOf(r))
                                                /\ UNCHANGED <<cwdDir, todo>>
                                  /\ UNCHANGED <<mode, dtype, http, remove_unused, files_filter,
                                                 localDir, tn, sock, listing, uiVars, codecVars>>

(* upload_xml: cwd(xml_path), then send_file for each of STC_XML_FILE. *)
UpXmlCwd == UpCwd("up_xml_cwd", "xml", "up_xml_send", STC_XML_FILE)

(* upload_data: ftp.cwd(services_path) before upload_bouquets. *)
UpServicesCwd == UpCwd("up_srv_cwd", "services", IF remove_unused THEN "up_rm_nlst" ELSE "up_bq_list", <<>>)

(* Where a finished loop of upload_data goes on. *)
UpAfterLoop == CASE pc = "up_xml_send" -> IF dtype = "ALL" THEN "up_srv_cwd" ELSE "up_resume"
                 [] pc = "up_rm_del" -> "up_bq_list"
                 [] pc = "up_bq_send" -> IF dtype = "ALL" THEN "up_data_list" ELSE "up_resume"
                 [] OTHER -> "up_resume"

UpSendLoops == {"up_xml_send", "up_bq_send", "up_data_send", "up_pic_send"}

(* send_file(file_name, path, callback) for the next entry of a loop. *)
UpSendFile == /\ pc \in UpSendLoops
              /\ todo # <<>>
              /\ todo' = Tail(todo)
              /\ LET f == Head(todo) IN
                 IF f \notin Range(localDir)
                 THEN /\ Emit(<<Ev("LOG", f, "missing")>>)
                      /\ UNCHANGED <<pc, exc, faults>>
                 ELSE \E r \in Replies :
                        /\ Count(r)
                        /\ CASE r = "ok" -> /\ Emit(<<Ev("STOR", f, r), Ev("CB", f, "status")>>)
                                            /\ UNCHANGED <<pc, exc>>
                             [] IsFtpError(r) -> /\ Emit(<<Ev("STOR", f, r), Ev("LOG", f, "status"),
                                                           Ev("CB", f, "status")>>)
                                                 /\ UNCHANGED <<pc, exc>>
                             [] OTHER -> /\ Emit(<<Ev("STOR", f, r)>>)
                                         /\ UpRaise("OSError")
              /\ UNCHANGED <<mode, dtype, http, remove_unused, files_filter, localDir, tn, sock,
                             cwdDir, listing, uiVars, codecVars>>

(* remove_unused_bouquets: self.nlst(), filtered by the bouquet prefixes. *)
UpRemoveNlst == /\ pc = "up_rm_nlst"
                /\ \E r \in Replies :
                      /\ Count(r)
                      /\ IF r = "ok"
                         THEN \E l \in Listings :
                                 /\ todo' = Filter(l, {f \in Names : StartsWithAny(f, BQ_PREFIXES)})
                                 /\ Emit(<<Ev("NLST", <<>>, r)>>)
                                 /\ pc' = "up_rm_del"
                                 /\ UNCHANGED exc
                         ELSE /\ Emit(<<Ev("NLST", <<>>, r)>>)
                              /\ UpRaise(ExcOf(r))
                              /\ UNCHANGED todo
                /\ UNCHANGED <<mode, dtype, http, remove_unused, files_filter, localDir, tn, sock,
                               cwdDir, listing, uiVars, codecVars>>

(* delete_file(file, callback) for the next unused bouquet file. *)
UpDeleteFile == /\ pc = "up_rm_del"
                /\ todo # <<>>
                /\ todo' = Tail(todo)
                /\ LET f == Head(todo) IN
                   \E r \in Replies :
                      /\ Count(r)
                      /\ CASE r = "ok" -> /\ Emit(<<Ev("DELE", f, r), Ev("CB", f, "status")>>)
                                          /\ UNCHANGED <<pc, exc>>
                           [] IsFtpError(r) -> /\ Emit(<<Ev("DELE", f, r), Ev("LOG", f, "status"),
                                                         Ev("CB", f, "status")>>)
                                               /\ UNCHANGED <<pc, exc>>
                           [] OTHER -> /\ Emit(<<Ev("DELE", f, r)>>)
                                       /\ UpRaise("OSError")
                /\ UNCHANGED <<mode, dtype, http, remove_unused, files_filter, localDir, tn, sock,
                               cwdDir, listing, uiVars, codecVars>>

(* upload_files(data_path, file_list): os.listdir, skipping STC_XML_FILE. *)
upload_files(file_list) == Filter(localDir, {f \in Names : /\ f \notin Range(STC_XML_FILE)
                                                           /\ EndsWithAny(f, file_list)})

(* upload_bouquets: upload_files(data_path, BQ_FILES_LIST, callback) *)
UpBouquetsList == /\ pc = "up_bq_list"
                  /\ todo' = upload_files(BQ_FILES_LIST)
                  /\ pc' = "up_bq_send"
                  /\ UNCHANGED <<mode, dtype, http, remove_unused, files_filter, localDir, events,
                                 tn, sock, cwdDir, listing, exc, faults, uiVars, codecVars>>

(* upload_data, ALL: ftp.upload_files(data_path, DATA_FILES_LIST, callback) *)
UpDataList == /\ pc = "up_data_list"
              /\ todo' = upload_files(DATA_FILES_LIST)
              /\ pc' = "up_data_send"
              /\ UNCHANGED <<mode, dtype, http, remove_unused, files_filter, localDir, events,
                             tn, sock, cwdDir, listing, exc, faults, uiVars, codecVars>>

(* A loop of upload_data has handled its last entry. *)
UpLoopEnd == /\ pc \in UpSendLoops \cup {"up_rm_del"}
             /\ todo = <<>>
             /\ pc' = UpAfterLoop
             /\ UNCHANGED <<mode, dtype, http, remove_unused, files_filter, localDir, events, tn,
                            sock, cwdDir, listing, todo, exc, faults, uiVars, codecVars>>

(* upload_picons: cwd(dest); an error_perm is caught, and only a 550 leads  *)
(* to mkd(dest) and a second cwd; another error_perm is dropped.            *)
UpPiconsCwd == /\ pc = "up_pic_cwd"
               /\ \E r \in Replies :
                     /\ Count(r)
                     /\ Emit(<<Ev("CWD", <<"picons">>, r)>>)
                     /\ CASE r = "ok" -> /\ cwdDir' = "picons"
                                         /\ pc' = "up_pic_list"
                                         /\ UNCHANGED exc
                          [] r = "550" -> /\ pc' = "up_pic_mkd"
                                          /\ UNCHANGED <<cwdDir, exc>>
                          [] r = "530" -> /\ pc' = "up_pic_list"
                                          /\ UNCHANGED <<cwdDir, exc>>
                          [] OTHER -> /\ UpRaise(ExcOf(r))
                                      /\ UNCHANGED cwdDir
               /\ UNCHANGED <<mode, dtype, http, remove_unused, files_filter, localDir, tn, sock,
                              listing, todo, uiVars, codecVars>>

(* upload_picons: self.mkd(dest) after a 550; any failure propagates. *)
UpPiconsMkd == /\ pc = "up_pic_mkd"
               /\ \E r \in Replies :
                     /\ Count(r)
                     /\ Emit(<<Ev("MKD", <<"picons">>, r)>>)
                     /\ IF r = "ok"
                        THEN /\ pc' = "up_pic_cwd2"
                             /\ UNCHANGED exc
                        ELSE UpRaise(ExcOf(r))
               /\ UNCHANGED <<mode, dtype, http, remove_unused, files_filter, localDir, tn, sock,
                              cwdDir, listing, todo, uiVars, codecVars>>

(* upload_picons: the second self.cwd(dest), inside the except clause. *)
UpPiconsCwd2 == UpCwd("up_pic_cwd2", "picons", "up_pic_list", <<>>)

(* upload_picons: filter(picons_filter_function(files_filter), os.listdir(src)) *)
UpPiconsList == /\ pc = "up_pic_list"
                /\ todo' = Filter(localDir, {f \in Names : picons_filter_function(files_filter, f)})
                /\ pc' = "up_pic_send"
                /\ UNCHANGED <<mode, dtype, http, remove_unused, files_filter, localDir, events,
                               tn, sock, cwdDir, listing, exc, faults, uiVars, codecVars>>

(* The HTTP commands after the transfer. *)
UpHttpReload == CASE dtype = "BOUQUETS" -> <<Ev("HTTP", <<"servicelistreload?mode=2">>, "ok")>>
                  [] dtype = "ALL" -> <<Ev("HTTP", <<"servicelistreload?mode=0">>, "ok"),
                                        Ev("HTTP", <<"powerstate?newstate=4">>, "ok")>>
                  [] OTHER -> <<>>

(* The control step after the transfer: tn.send("init 3"), or the HTTP      *)
(* reload commands.                                                         *)
UpResume == /\ pc = "up_resume"
            /\ IF tn # "none" /\ ~http
               THEN \/ /\ Emit(<<Ev("TN", <<"init 3">>, "ok"), Ev("CB", <<"Starting...">>, "msg")>>)
                       /\ tn' = "yield3"
                       /\ pc' = "up_done_cb"
                       /\ UNCHANGED <<sock, exc, faults>>
                    \/ /\ faults < MaxFaults
                       /\ faults' = faults + 1
                       /\ tn' = "finished"
                       /\ sock' = "lost"
                       /\ Emit(<<Ev("TN", <<"init 3">>, "os")>>)
                       /\ UpRaise("OSError")
               ELSE /\ Emit(IF http THEN UpHttpReload ELSE <<>>)
                    /\ pc' = "up_done_cb"
                    /\ UNCHANGED <<tn, sock, exc, faults>>
            /\ UNCHANGED <<mode, dtype, http, remove_unused, files_filter, localDir, cwdDir,
                           listing, todo, uiVars, codecVars>>

(* done_callback(), then the with-block and the try end normally. *)
UpDoneCallback == /\ pc = "up_done_cb"
                  /\ Emit(<<Ev("DONE_CB", <<>>, "ok")>>)
                  /\ pc' = "up_finally"
                  /\ UNCHANGED <<mode, dtype, http, remove_unused, files_filter, localDir, tn, sock,
                                 cwdDir, listing, todo, exc, faults, uiVars, codecVars>>

(* Mutation of UpFinally: the session is closed at the end of the try body  *)
(* instead of in a finally clause.                                          *)
UpFinally_OnSuccessOnly == /\ pc = "up_finally"
                           /\ IF exc = "none" /\ tn \in {"created", "yield1", "yield2", "yield3"}
                              THEN /\ tn' = "closed"
                                   /\ sock' = IF sock = "open" THEN "closed" ELSE sock
                              ELSE UNCHANGED <<tn, sock>>
                           /\ pc' = "up_exit"
                           /\ UNCHANGED <<mode, dtype, http, remove_unused, files_filter, localDir,
                                          events, cwdDir, listing, todo, exc, faults, uiVars, codecVars>>

(* finally: if tn: tn.close().  tn is the generator: closing it while it is *)
(* suspended at a yield ends its frame, and the Telnet object the frame     *)
(* held is released, which closes its socket (Telnet.__del__).  A generator *)
(* that has already ended is left as it is.                                 *)
UpFinally == /\ pc = "up_finally"
             /\ IF tn \in {"created", "yield1", "yield2", "yield3"}
                THEN /\ tn' = "closed"
                     /\ sock' = IF sock = "open" THEN "closed" ELSE sock
                ELSE UNCHANGED <<tn, sock>>
             /\ pc' = "up_exit"
             /\ UNCHANGED <<mode, dtype, http, remove_unused, files_filter, localDir, events,
                            cwdDir, listing, todo, exc, faults, uiVars, codecVars>>

InitUpload == /\ mode = "upload_data"
              /\ dtype \in DownloadType
              /\ http \in BOOLEAN
              /\ remove_unused \in BOOLEAN
              /\ files_filter \in (IF dtype = "PICONS" THEN FilterChoices ELSE {NoFilter})
              /\ localDir \in Listings
              /\ pc = "up_start"
              /\ events = <<>>
              /\ tn = "none"
              /\ sock = "none"
              /\ cwdDir = "none"
              /\ listing = NoListing
              /\ todo = <<>>
              /\ exc = "none"
              /\ faults = 0
              /\ UiIdle
              /\ CodecIdle

NextUpload == \/ UpStart
              \/ UpTelnetNext
              \/ UpTelnetStop
              \/ UpFtpConnect
              \/ UpXmlCwd
              \/ UpServicesCwd
              \/ UpSendFile
              \/ UpRemoveNlst
              \/ UpDeleteFile
              \/ UpBouquetsList
              \/ UpDataList
              \/ UpLoopEnd
              \/ UpPiconsCwd
              \/ UpPiconsMkd
              \/ UpPiconsCwd2
              \/ UpPiconsList
              \/ UpResume
              \/ UpDoneCallback
              \/ UpFinally

SpecUpload == InitUpload /\ [][NextUpload]_vars

(***************************************************************************)
(* telnet: the generator, driven by any caller                             *)
(***************************************************************************)

(* Bound: the calls of tn.send in one session. *)
MaxSends == 3

(* The commands a caller sends; "None" is what next(tn) sends. *)
TnCommands == {"init 4", "init 3", "None"}

Sends == Len(SelectSeq(events, LAMBDA e : e.op = "SEND"))

(* next(tn) on the new generator: as in upload_data. *)
TnNext == /\ mode = "telnet"
          /\ tn = "created"
          /\ \E r \in IF faults < MaxFaults THEN {"ok", "timeout", "os"} ELSE {"ok"} :
                /\ Count(r)
                /\ CASE r = "ok" -> /\ tn' = "yield1"
                                    /\ sock' = "open"
                                    /\ Emit(<<Ev("TN_CONNECT", <<>>, r)>>)
                                    /\ exc' = "none"
                     [] r = "timeout" -> /\ tn' = "finished"
                                         /\ Emit(<<Ev("TN_CONNECT", <<>>, r),
                                                   Ev("LOG", <<"telnet error: socket timeout">>, "msg")>>)
                                         /\ exc' = "StopIteration"
                                         /\ UNCHANGED sock
                     [] OTHER -> /\ tn' = "finished"
                                 /\ Emit(<<Ev("TN_CONNECT", <<>>, r)>>)
                                 /\ exc' = "OSError"
                                 /\ UNCHANGED sock
          /\ UNCHANGED <<mode, dtype, http, remove_unused, files_filter, localDir, pc, cwdDir,
                         listing, todo, uiVars, codecVars>>

(* tn.send(command): a new generator takes no value (TypeError); from the   *)
(* first yield the login and the command are written, from the second the   *)
(* command; from the third the generator ends (StopIteration), as does any  *)
(* send to a generator that has ended or was closed.                        *)
TnSend(command) ==
    /\ mode = "telnet"
    /\ Sends < MaxSends
    /\ CASE tn = "created" ->
               /\ command # "None"
               /\ Emit(<<Ev("SEND", <<command>>, "TypeError")>>)
               /\ exc' = "TypeError"
               /\ UNCHANGED <<tn, sock, faults>>
         [] tn = "yield1" ->
               \/ /\ Emit(TelnetLogin(command) \o <<Ev("SEND", <<command>>, "ok")>>)
                  /\ tn' = "yield2"
                  /\ exc' = "none"
                  /\ UNCHANGED <<sock, faults>>
               \/ /\ faults < MaxFaults
                  /\ \E k \in 0..(Len(TelnetLogin(command)) - 1) :
                        Emit(SubSeq(TelnetLogin(command), 1, k)
                             \o <<[TelnetLogin(command)[k + 1] EXCEPT !.res = "os"],
                                  Ev("SEND", <<command>>, "OSError")>>)
                  /\ faults' = faults + 1
                  /\ tn' = "finished"
                  /\ sock' = "lost"
                  /\ exc' = "OSError"
         [] tn = "yield2" ->
               \/ /\ Emit(<<Ev("TN", <<command>>, "ok"), Ev("SEND", <<command>>, "ok")>>)
                  /\ tn' = "yield3"
                  /\ exc' = "none"
                  /\ UNCHANGED <<sock, faults>>
               \/ /\ faults < MaxFaults
                  /\ faults' = faults + 1
                  /\ tn' = "finished"
                  /\ sock' = "lost"
                  /\ Emit(<<Ev("TN", <<command>>, "os"), Ev("SEND", <<command>>, "OSError")>>)
                  /\ exc' = "OSError"
         [] tn = "yield3" ->
               /\ Emit(<<Ev("SEND", <<command>>, "StopIteration")>>)
               /\ tn' = "finished"
               /\ sock' = IF sock = "open" THEN "closed" ELSE sock
               /\ exc' = "StopIteration"
               /\ UNCHANGED faults
         [] OTHER ->
               /\ Emit(<<Ev("SEND", <<command>>, "StopIteration")>>)
               /\ exc' = "StopIteration"
               /\ UNCHANGED <<tn, sock, faults>>
    /\ UNCHANGED <<mode, dtype, http, remove_unused, files_filter, localDir, pc, cwdDir,
                   listing, todo, uiVars, codecVars>>

(* tn.close(): as in the finally clause of upload_data. *)
TnClose == /\ mode = "telnet"
           /\ tn \in {"created", "yield1", "yield2", "yield3"}
           /\ tn' = "closed"
           /\ sock' = IF sock = "open" THEN "closed" ELSE sock
           /\ UNCHANGED <<mode, dtype, http, remove_unused, files_filter, localDir, pc, events,
                          cwdDir, listing, todo, exc, faults, uiVars, codecVars>>

(* tn = telnet(host, user, password, timeout): nothing runs yet. *)
InitSession == /\ mode = "telnet"
               /\ dtype = "ALL"
               /\ http = FALSE
               /\ remove_unused = FALSE
               /\ files_filter = NoFilter
               /\ localDir = <<>>
               /\ pc = "tn_session"
               /\ events = <<>>
               /\ tn = "created"
               /\ sock = "none"
               /\ cwdDir = "none"
               /\ listing = NoListing
               /\ todo = <<>>
               /\ exc = "none"
               /\ faults = 0
               /\ UiIdle
               /\ CodecIdle

NextSession == \/ TnNext
               \/ \E command \in TnCommands : TnSend(command)
               \/ TnClose

(* The telnet generator inside upload_data, and driven by any caller. *)
SpecTelnet == (InitUpload \/ InitSession) /\ [][NextUpload \/ NextSession]_vars

(***************************************************************************)
(* remove_picons and UtfFTP.delete_picons                                  *)
(***************************************************************************)

(* An exception leaves the with-block of remove_picons. *)
RmRaise(e) == /\ exc' = e
              /\ pc' = "rm_exit"

(* with UtfFTP(host, user, passwd) as ftp: ...; callback("FTP OK.") *)
RmConnect == /\ pc = "rm_connect"
             /\ \E r \in Replies \ {"550", "421"} :
                   /\ Count(r)
                   /\ IF r = "ok"
                      THEN /\ cwdDir' = "login"
                           /\ Emit(<<Ev("CONNECT", <<>>, r), Ev("CB", <<"FTP OK.">>, "msg")>>)
                           /\ pc' = "rm_cwd"
                           /\ UNCHANGED exc
                      ELSE /\ Emit(<<Ev("CONNECT", <<>>, r)>>)
                           /\ RmRaise(ExcOf(r))
                           /\ UNCHANGED cwdDir
             /\ UNCHANGED <<mode, dtype, http, remove_unused, files_filter, localDir, tn, sock,
                            listing, todo, uiVars, codecVars>>

(* delete_picons: if dest: self.cwd(dest); any ftplib.Error is reported     *)
(* through the callback and delete_picons returns.                          *)
RmPiconsCwd == /\ pc = "rm_cwd"
               /\ \E r \in Replies :
                     /\ Count(r)
                     /\ CASE r = "ok" -> /\ Emit(<<Ev("CWD", <<"picons">>, r)>>)
                                         /\ cwdDir' = "picons"
                                         /\ pc' = "rm_nlst"
                                         /\ UNCHANGED exc
                          [] IsFtpError(r) -> /\ Emit(<<Ev("CWD", <<"picons">>, r),
                                                       Ev("CB", <<"picons">>, "error")>>)
                                              /\ pc' = "rm_done_cb"
                                              /\ UNCHANGED <<cwdDir, exc>>
                          [] OTHER -> /\ Emit(<<Ev("CWD", <<"picons">>, r)>>)
                                      /\ RmRaise(ExcOf(r))
                                      /\ UNCHANGED cwdDir
               /\ UNCHANGED <<mode, dtype, http, remove_unused, files_filter, localDir, tn, sock,
                              listing, todo, uiVars, codecVars>>

(* Mutation of RmAccepted: delete_picons selects by image suffix only. *)
RmAccepted_SuffixOnly == {f \in Names : EndsWithAny(f, PICONS_SUF)}

(* delete_picons: the names picons_filter_function(files_filter) accepts. *)
RmAccepted == {f \in Names : picons_filter_function(files_filter, f)}

(* delete_picons: filter(picons_filter_function(files_filter), self.nlst()) *)
RmNlst == /\ pc = "rm_nlst"
          /\ \E r \in Replies :
                /\ Count(r)
                /\ Emit(<<Ev("NLST", <<>>, r)>>)
                /\ IF r = "ok"
                   THEN \E l \in Listings :
                           /\ listing' = [listing EXCEPT ![cwdDir] = l]
                           /\ todo' = Filter(l, RmAccepted)
                           /\ pc' = "rm_del"
                           /\ UNCHANGED exc
                   ELSE /\ RmRaise(ExcOf(r))
                        /\ UNCHANGED <<listing, todo>>
          /\ UNCHANGED <<mode, dtype, http, remove_unused, files_filter, localDir, tn, sock,
                         cwdDir, uiVars, codecVars>>

(* delete_picons: delete_file(file, callback) for the next entry. *)
RmDeleteFile == /\ pc = "rm_del"
                /\ todo # <<>>
                /\ todo' = Tail(todo)
                /\ LET f == Head(todo) IN
                   \E r \in Replies :
                      /\ Count(r)
                      /\ CASE r = "ok" -> /\ Emit(<<Ev("DELE", f, r), Ev("CB", f, "status")>>)
                                          /\ UNCHANGED <<pc, exc>>
                           [] IsFtpError(r) -> /\ Emit(<<Ev("DELE", f, r), Ev("LOG", f, "status"),
                                                         Ev("CB", f, "status")>>)
                                               /\ UNCHANGED <<pc, exc>>
                           [] OTHER -> /\ Emit(<<Ev("DELE", f, r)>>)
                                       /\ RmRaise("OSError")
                /\ UNCHANGED <<mode, dtype, http, remove_unused, files_filter, localDir, tn, sock,
                               cwdDir, listing, uiVars, codecVars>>

(* delete_picons has handled its last entry and returns. *)
RmLoopEnd == /\ pc = "rm_del"
             /\ todo = <<>>
             /\ pc' = "rm_done_cb"
             /\ UNCHANGED <<mode, dtype, http, remove_unused, files_filter, localDir, events, tn,
                            sock, cwdDir, listing, todo, exc, faults, uiVars, codecVars>>

(* remove_picons: if done_callback: done_callback() *)
RmDoneCallback == /\ pc = "rm_done_cb"
                  /\ Emit(<<Ev("DONE_CB", <<>>, "ok")>>)
                  /\ pc' = "rm_exit"
                  /\ UNCHANGED <<mode, dtype, http, remove_unused, files_filter, localDir, tn,
                                 sock, cwdDir, listing, todo, exc, faults, uiVars, codecVars>>

InitRemove == /\ mode = "remove_picons"
              /\ dtype = "PICONS"
              /\ http = FALSE
              /\ remove_unused = FALSE
              /\ files_filter \in FilterChoices
              /\ localDir = <<>>
              /\ pc = "rm_connect"
              /\ events = <<>>
              /\ tn = "none"
              /\ sock = "none"
              /\ cwdDir = "none"
              /\ listing = NoListing
              /\ todo = <<>>
              /\ exc = "none"
              /\ faults = 0
              /\ UiIdle
              /\ CodecIdle

NextRemove == \/ RmConnect
              \/ RmPiconsCwd
              \/ RmNlst
              \/ RmDeleteFile
              \/ RmLoopEnd
              \/ RmDoneCallback

(***************************************************************************)
(* DataLoader.run and download_data                                        *)
(***************************************************************************)

(* An exception leaves download_data: on to the except clause of run. *)
DlRaise(e) == /\ exc' = e
              /\ pc' = "run_except"

(* The ifs of download_data in order: the next one after stage k whose      *)
(* condition holds for download_type.                                       *)
DlStage(k) == CASE k < 1 /\ dtype \in {"ALL", "BOUQUETS"} -> "dl_srv_cwd"
                [] k < 2 /\ dtype \in {"ALL", "SATELLITES"} -> "dl_xml_cwd"
                [] k < 3 /\ dtype = "PICONS" -> "dl_pic_cwd"
                [] k < 4 /\ dtype = "EPG" -> "dl_epg"
                [] OTHER -> "dl_done"

(* DataLoader.run: nothing for an upload, download_data otherwise. *)
LoaderRun == /\ pc = "run"
             /\ pc' = IF mode = "loader_upload" THEN "run_end" ELSE "dl_connect"
             /\ UNCHANGED <<mode, dtype, http, remove_unused, files_filter, localDir, events, tn,
                            sock, cwdDir, listing, todo, exc, faults, uiVars, codecVars>>

(* with UtfFTP(host, user, passwd) as ftp: ...; callback("FTP OK.") *)
DlConnect == /\ pc = "dl_connect"
             /\ \E r \in Replies \ {"550", "421"} :
                   /\ Count(r)
                   /\ IF r = "ok"
                      THEN /\ cwdDir' = "login"
                           /\ Emit(<<Ev("CONNECT", <<>>, r), Ev("CB", <<"FTP OK.">>, "msg")>>)
                           /\ pc' = DlStage(0)
                           /\ UNCHANGED exc
                      ELSE /\ Emit(<<Ev("CONNECT", <<>>, r)>>)
                           /\ DlRaise(ExcOf(r))
                           /\ UNCHANGED cwdDir
             /\ UNCHANGED <<mode, dtype, http, remove_unused, files_filter, localDir, tn, sock,
                            listing, todo, uiVars, codecVars>>

(* ftp.cwd(path) of download_data and download_xml: any failure propagates. *)
DlCwd(at, dir, next) == /\ pc = at
                        /\ \E r \in Replies :
                              /\ Count(r)
                              /\ Emit(<<Ev("CWD", <<dir>>, r)>>)
                              /\ IF r = "ok"
                                 THEN /\ cwdDir' = dir
                                      /\ pc' = next
                                      /\ UNCHANGED exc
                                 ELSE /\ DlRaise(ExcOf(r))
                                      /\ UNCHANGED cwdDir
                        /\ UNCHANGED <<mode, dtype, http, remove_unused, files_filter, localDir,
                                       tn, sock, listing, todo, uiVars, codecVars>>

(* download_data: ftp.cwd(settings.box_services_path) *)
DlServicesCwd == DlCwd("dl_srv_cwd", "services", "dl_srv_nlst")

(* download_xml: self.cwd(xml_path) *)
DlXmlCwd == DlCwd("dl_xml_cwd", "xml", "dl_xml_nlst")

(* Mutation of DlFileList: the data files are asked for with every type. *)
DlFileList_WithData == BQ_FILES_LIST \o DATA_FILES_LIST

(* The suffixes download_data asks download_files for in the services dir. *)
DlFileList == IF dtype = "ALL" THEN BQ_FILES_LIST \o DATA_FILES_LIST ELSE BQ_FILES_LIST

(* What the name listing of the current step is filtered by. *)
DlAccepted == CASE pc = "dl_srv_nlst" -> {f \in Names : EndsWithAny(f, DlFileList)}
                [] pc = "dl_xml_nlst" -> {f \in Names : EndsWithAny(f, STC_XML_FILE)}
                [] OTHER -> {f \in Names : picons_filter_function(files_filter, f)}

DlGetLoop == CASE pc = "dl_srv_nlst" -> "dl_srv_get"
               [] pc = "dl_xml_nlst" -> "dl_xml_get"
               [] OTHER -> "dl_pic_get"

(* download_files / download_picons: filter(pred, self.nlst()) *)
DlNlst == /\ pc \in {"dl_srv_nlst", "dl_xml_nlst", "dl_pic_nlst"}
          /\ \E r \in Replies :
                /\ Count(r)
                /\ Emit(<<Ev("NLST", <<>>, r)>>)
                /\ IF r = "ok"
                   THEN \E l \in Listings :
                           /\ listing' = [listing EXCEPT ![cwdDir] = l]
                           /\ todo' = Filter(l, DlAccepted)
                           /\ pc' = DlGetLoop
                           /\ UNCHANGED exc
                   ELSE /\ DlRaise(ExcOf(r))
                        /\ UNCHANGED <<listing, todo>>
          /\ UNCHANGED <<mode, dtype, http, remove_unused, files_filter, localDir, tn, sock,
                         cwdDir, uiVars, codecVars>>

(* download_file(name, save_path, callback) for the next entry: only an     *)
(* error_perm is caught; it goes into the status line.                      *)
DlGetFile == /\ pc \in {"dl_srv_get", "dl_xml_get", "dl_pic_get"}
             /\ todo # <<>>
             /\ todo' = Tail(todo)
             /\ LET f == Head(todo) IN
                \E r \in Replies :
                   /\ Count(r)
                   /\ CASE r = "ok" -> /\ Emit(<<Ev("RETR", f, r), Ev("CB", f, "status")>>)
                                       /\ UNCHANGED <<pc, exc>>
                        [] IsErrorPerm(r) -> /\ Emit(<<Ev("RETR", f, r), Ev("LOG", f, "status"),
                                                      Ev("CB", f, "status")>>)
                                             /\ UNCHANGED <<pc, exc>>
                        [] OTHER -> /\ Emit(<<Ev("RETR", f, r)>>)
                                    /\ DlRaise(ExcOf(r))
             /\ UNCHANGED <<mode, dtype, http, remove_unused, files_filter, localDir, tn, sock,
                            cwdDir, listing, uiVars, codecVars>>

(* A download loop has handled its last entry. *)
DlLoopEnd == /\ pc \in {"dl_srv_get", "dl_xml_get", "dl_pic_get"}
             /\ todo = <<>>
             /\ pc' = DlStage(CASE pc = "dl_srv_get" -> 1 [] pc = "dl_xml_get" -> 2 [] OTHER -> 3)
             /\ UNCHANGED <<mode, dtype, http, remove_unused, files_filter, localDir, events, tn,
                            sock, cwdDir, listing, todo, exc, faults, uiVars, codecVars>>

(* download_picons: self.cwd(src); an error_perm is reported through the    *)
(* callback and download_picons returns.                                    *)
DlPiconsCwd == /\ pc = "dl_pic_cwd"
               /\ \E r \in Replies :
                     /\ Count(r)
                     /\ CASE r = "ok" -> /\ Emit(<<Ev("CWD", <<"picons">>, r)>>)
                                         /\ cwdDir' = "picons"
                                         /\ pc' = "dl_pic_nlst"
                                         /\ UNCHANGED exc
                          [] IsErrorPerm(r) -> /\ Emit(<<Ev("CWD", <<"picons">>, r),
                                                        Ev("CB", <<"picons">>, "error")>>)
                                               /\ pc' = DlStage(3)
                                               /\ UNCHANGED <<cwdDir, exc>>
                          [] OTHER -> /\ Emit(<<Ev("CWD", <<"picons">>, r)>>)
                                      /\ DlRaise(ExcOf(r))
                                      /\ UNCHANGED cwdDir
               /\ UNCHANGED <<mode, dtype, http, remove_unused, files_filter, localDir, tn, sock,
                              listing, todo, uiVars, codecVars>>

(* Mutation of DlEpg: the branch only logs. *)
DlEpg_Silent == /\ pc = "dl_epg"
                /\ Emit(<<Ev("LOG", <<"Not implemented yet!">>, "msg")>>)
                /\ pc' = "dl_done"
                /\ UNCHANGED <<mode, dtype, http, remove_unused, files_filter, localDir, tn, sock,
                               cwdDir, listing, todo, exc, faults, uiVars, codecVars>>

(* download_data, EPG: log("Not implemented yet!"); raise OSError(...) *)
DlEpg == /\ pc = "dl_epg"
         /\ Emit(<<Ev("LOG", <<"Not implemented yet!">>, "msg")>>)
         /\ DlRaise("OSError")
         /\ UNCHANGED <<mode, dtype, http, remove_unused, files_filter, localDir, tn, sock,
                        cwdDir, listing, todo, faults, uiVars, codecVars>>

(* download_data: callback("Done."), and download_data returns. *)
DlDone == /\ pc = "dl_done"
          /\ Emit(<<Ev("CB", <<"Done.">>, "msg")>>)
          /\ pc' = "run_end"
          /\ UNCHANGED <<mode, dtype, http, remove_unused, files_filter, localDir, tn, sock,
                         cwdDir, listing, todo, exc, faults, uiVars, codecVars>>

(* Mutation of RunCatches: "except Error" in place of "except Exception". *)
RunCatches_FtpOnly(e) == e \in {"error_perm", "error_temp"}

(* The exceptions "except Exception" of DataLoader.run catches. *)
RunCatches(e) == e \in {"error_perm", "error_temp", "OSError", "StopIteration"}

(* DataLoader.run, except Exception as e: error_message.emit, message.emit  *)
LoaderExcept == /\ pc = "run_except"
                /\ IF RunCatches(exc)
                   THEN /\ Emit(<<Ev("ERROR_MESSAGE", <<"Error: ", exc>>, "error"),
                                  Ev("CB", <<"Error: ", exc>>, "error")>>)
                        /\ pc' = "run_end"
                   ELSE /\ pc' = "run_propagated"
                        /\ UNCHANGED events
                /\ UNCHANGED <<mode, dtype, http, remove_unused, files_filter, localDir, tn, sock,
                               cwdDir, listing, todo, exc, faults, uiVars, codecVars>>

(* The thread ends: finished, connected to loaded.emit(self.download_type). *)
LoaderFinished == /\ pc \in {"run_end", "run_propagated"}
                  /\ Emit(<<Ev("LOADED", <<dtype>>, "ok")>>)
                  /\ pc' = IF pc = "run_end" THEN "run_returned" ELSE "run_crashed"
                  /\ UNCHANGED <<mode, dtype, http, remove_unused, files_filter, localDir, tn, sock,
                                 cwdDir, listing, todo, exc, faults, uiVars, codecVars>>

InitLoader == /\ mode \in {"loader_download", "loader_upload"}
              /\ dtype \in DownloadType
              /\ http = FALSE
              /\ remove_unused = FALSE
              /\ files_filter \in (IF dtype = "PICONS" THEN FilterChoices ELSE {NoFilter})
              /\ localDir = <<>>
              /\ pc = "run"
              /\ events = <<>>
              /\ tn = "none"
              /\ sock = "none"
              /\ cwdDir = "none"
              /\ listing = NoListing
              /\ todo = <<>>
              /\ exc = "none"
              /\ faults = 0
              /\ UiIdle
              /\ CodecIdle

NextLoader == \/ LoaderRun
              \/ DlConnect
              \/ DlServicesCwd
              \/ DlXmlCwd
              \/ DlNlst
              \/ DlGetFile
              \/ DlLoopEnd
              \/ DlPiconsCwd
              \/ DlEpg
              \/ DlDone
              \/ LoaderExcept
              \/ LoaderFinished

Init == InitUpload \/ InitLoader \/ InitRemove

Next == NextUpload \/ NextLoader \/ NextRemove

Spec == Init /\ [][Next]_vars

(***************************************************************************)
(* Properties of a sync run                                                *)
(***************************************************************************)

IsEv(i, op, arg) == events[i].op = op /\ events[i].arg = arg

Has(op, arg) == \E i \in DOMAIN events : IsEv(i, op, arg)

HasOp(op) == \E i \in DOMAIN events : events[i].op = op

(* Events that move or remove a file on the receiver / fetch one from it. *)
FileOps == {"STOR", "DELE", "RETR"}

(* Every FTP command of a transfer. *)
WireOps == FileOps \cup {"CWD", "NLST", "MKD"}

(* Reports of completion: "Done.", done_callback, resume and reload. *)
IsCompletion(e) == \/ e.op = "DONE_CB"
                   \/ e.op = "CB" /\ e.arg = <<"Done.">>
                   \/ e.op = "TN" /\ e.arg = <<"init 3">> /\ e.res = "ok"
                   \/ e.op = "HTTP" /\ e.arg \in {<<"servicelistreload?mode=2">>,
                                                  <<"servicelistreload?mode=0">>,
                                                  <<"powerstate?newstate=4">>}

IsReload(e) == e.op = "HTTP" /\ e.arg \in {<<"servicelistreload?mode=2">>, <<"servicelistreload?mode=0">>}

(* C1: in a full upload over the telnet control surface, "init 4" is       *)
(* written before any STOR or DELE, and "init 3" only after the last STOR  *)
(* or DELE of the upload has returned.                                     *)
C1_StopBeforeTransferResumeAfter ==
    (mode = "upload_data" /\ dtype = "ALL" /\ ~http) =>
        /\ \A i \in DOMAIN events : events[i].op \in {"STOR", "DELE"} =>
               \E j \in 1..(i - 1) : IsEv(j, "TN", <<"init 4">>) /\ events[j].res = "ok"
        /\ \A i \in DOMAIN events : IsEv(i, "TN", <<"init 3">>) =>
               /\ \A j \in DOMAIN events : events[j].op \in {"STOR", "DELE"} => j < i
               /\ todo = <<>>

C1_Witness ==
    /\ mode = "upload_data" /\ dtype = "ALL" /\ ~http
    /\ Has("TN", <<"init 4">>) /\ Has("TN", <<"init 3">>)
    /\ \A i \in DOMAIN events : events[i].op = "TN" => events[i].res = "ok"
    /\ \E i, j \in DOMAIN events : events[i].op = "DELE" /\ events[j].op = "STOR" /\ events[j].arg = N_lamedb

C3_ExactlyOneControlBranch ==
    (mode = "upload_data" /\ dtype \in {"ALL", "BOUQUETS"}) =>
        /\ ~(HasOp("HTTP") /\ tn # "none")
        /\ pc # "up_start" => /\ HasOp("HTTP") <=> http
                              /\ tn # "none" <=> ~http

C3_Witness ==
    /\ mode = "upload_data" /\ dtype = "BOUQUETS" /\ http
    /\ pc = "up_exit" /\ exc = "none"
    /\ Has("HTTP", <<"servicelistreload?mode=2">>) /\ tn = "none" /\ HasOp("STOR")

(* C4: a BOUQUETS upload stores no XML descriptor file and no file twice;   *)
(* when it completes, every local bouquet file was sent exactly once, and  *)
(* with an http client exactly one reload command was issued, after the    *)
(* last STOR.                                                              *)
C4_BouquetsOnlyUpload ==
    (mode = "upload_data" /\ dtype = "BOUQUETS") =>
        /\ \A i \in DOMAIN events : events[i].op = "STOR" =>
               /\ events[i].arg \notin Range(STC_XML_FILE)
               /\ EndsWithAny(events[i].arg, BQ_FILES_LIST)
               /\ \A j \in DOMAIN events : (events[j].op = "STOR" /\ events[j].arg = events[i].arg) => j = i
        /\ \A i, j \in DOMAIN events : (IsReload(events[i]) /\ IsReload(events[j])) => i = j
        /\ \A i, j \in DOMAIN events : (IsReload(events[i]) /\ events[j].op = "STOR") => j < i
        /\ (pc = "up_exit" /\ exc = "none") =>
               /\ \A f \in Range(localDir) : EndsWithAny(f, BQ_FILES_LIST) => Has("STOR", f)
               /\ http <=> \E i \in DOMAIN events : IsReload(events[i])

C4_Witness ==
    /\ mode = "upload_data" /\ dtype = "BOUQUETS" /\ http
    /\ pc = "up_exit" /\ exc = "none"
    /\ N_satellites \in Range(localDir)
    /\ Has("STOR", N_userbouquet)
    /\ events[Len(events) - 1].arg = <<"servicelistreload?mode=2">>

StepOps == WireOps \cup {"CONNECT", "TN_CONNECT", "TN"}

(* The failed steps the transfer client catches: a RETR rejected with a     *)
(* permanent error, a rejected STOR or DELE, and the first CWD into the     *)
(* picon directory rejected with a permanent error.                         *)
Caught(i) == LET e == events[i] IN
             \/ e.op = "RETR" /\ IsErrorPerm(e.res)
             \/ e.op \in {"STOR", "DELE"} /\ IsFtpError(e.res)
             \/ /\ e.op = "CWD" /\ e.arg = <<"picons">> /\ IsErrorPerm(e.res)
                /\ \A k \in 1..(i - 1) : events[k].op # "MKD"

Failed(i) == events[i].op \in StepOps /\ events[i].res # "ok"

C6_RunCatchesEverything ==
    (mode \in {"loader_download", "loader_upload"}) =>
        /\ pc \notin {"run_propagated", "run_crashed"}
        /\ (exc # "none" /\ pc \in {"run_end", "run_returned"}) =>
               \E i \in DOMAIN events :
                   /\ IsEv(i, "ERROR_MESSAGE", <<"Error: ", exc>>)
                   /\ i < Len(events)
                   /\ IsEv(i + 1, "CB", <<"Error: ", exc>>)

C6_Witness ==
    /\ mode = "loader_download" /\ pc = "run_returned"
    /\ exc = "OSError" /\ dtype = "ALL"
    /\ Has("CB", <<"Error: ", "OSError">>) /\ HasOp("RETR")

(* C8: an EPG download transfers no file and never reports "Done.";         *)
(* download_data ends by raising.                                          *)
C8_EpgFailsLoudly ==
    (mode = "loader_download" /\ dtype = "EPG") =>
        /\ ~HasOp("RETR")
        /\ ~Has("CB", <<"Done.">>)
        /\ pc \in {"run_except", "run_end", "run_returned"} => exc # "none"

C8_Witness ==
    /\ mode = "loader_download" /\ dtype = "EPG"
    /\ exc = "OSError" /\ Has("LOG", <<"Not implemented yet!">>)
    /\ Has("CB", <<"FTP OK.">>) /\ pc = "run_returned"

(* C9 as claimed: a DataLoader started with upload=True does not emit       *)
(* loaded without having transferred anything or reported an error.        *)
C9_UploadNeverSilent ==
    (mode = "loader_upload" /\ HasOp("LOADED")) =>
        \/ \E i \in DOMAIN events : events[i].op \in WireOps
        \/ HasOp("ERROR_MESSAGE")

(* The names retrieved from remote directory d. *)
Retrieved(d) == {events[i].arg : i \in {k \in DOMAIN events : events[k].op = "RETR" /\ events[k].dir = d}}

Listed(d, sufs) == {f \in Range(listing[d]) : EndsWithAny(f, sufs)}

(* C10 as claimed: a completed BOUQUETS download has fetched the bouquet    *)
(* files and the service-database files of the services directory.         *)
C10_BouquetsFetchServiceDb ==
    (mode = "loader_download" /\ dtype = "BOUQUETS" /\ pc = "run_returned" /\ exc = "none") =>
        Retrieved("services") = Listed("services", BQ_FILES_LIST \o DATA_FILES_LIST)

(* The subset download_data is asked for: directory and name. *)
InSubset(d, f) == CASE dtype = "BOUQUETS" -> d = "services" /\ EndsWithAny(f, BQ_FILES_LIST)
                    [] dtype = "ALL" -> \/ d = "services" /\ EndsWithAny(f, BQ_FILES_LIST \o DATA_FILES_LIST)
                                        \/ d = "xml" /\ EndsWithAny(f, STC_XML_FILE)
                    [] dtype = "SATELLITES" -> d = "xml" /\ EndsWithAny(f, STC_XML_FILE)
                    [] dtype = "PICONS" -> /\ d = "picons"
                                           /\ IF files_filter.given /\ files_filter.names # {}
                                              THEN f \in files_filter.names
                                              ELSE EndsWithAny(f, PICONS_SUF)
                    [] OTHER -> FALSE

(* C10 as amended: BOUQUETS fetches the bouquet files only (names ending in *)
(* tv or radio), ALL the bouquet and service-database files and the XML    *)
(* descriptor files, SATELLITES the XML descriptor files, PICONS the       *)
(* filtered image subset; nothing outside the subset is retrieved, and a   *)
(* completed download has retrieved every listed file of the subset.       *)
C10_FetchesRequestedSubset ==
    (mode = "loader_download") =>
        /\ \A i \in DOMAIN events : events[i].op = "RETR" => InSubset(events[i].dir, events[i].arg)
        /\ (pc = "run_returned" /\ exc = "none") =>
               \A d \in Dirs : Retrieved(d) = {f \in Range(listing[d]) : InSubset(d, f)}

C10_Witness ==
    /\ mode = "loader_download" /\ dtype = "BOUQUETS"
    /\ pc = "run_returned" /\ exc = "none"
    /\ listing["services"] = <<N_lamedb, N_userbouquet>>
    /\ Retrieved("services") = {N_userbouquet}

(* The names of the events of kind op issued in remote directory d, in order. *)
ArgsOf(op, d) == LET Test(e) == e.op = op /\ e.dir = d
                     sel == SelectSeq(events, Test)
                 IN  [i \in 1..Len(sel) |-> sel[i].arg]

IsPrefix(s, t) == Len(s) <= Len(t) /\ SubSeq(t, 1, Len(s)) = s

(* The listed names of d that end with one of the suffixes, in listing order. *)
Expected(d, sufs) == LET Test(f) == \E k \in 1..Len(sufs) :
                                       /\ Len(sufs[k]) <= Len(f)
                                       /\ \A c \in 1..Len(sufs[k]) :
                                             f[Len(f) - Len(sufs[k]) + c] = sufs[k][c]
                     IN  SelectSeq(listing[d], Test)

(* C11: download_files retrieves the listed names that end with one of the  *)
(* suffixes, each once and in listing order: at any time the names          *)
(* retrieved from the services and XML directories are a prefix of the      *)
(* suffix-filtered listing, and the whole of it once the loop has ended.    *)
C11_DownloadFilesSelectsBySuffix ==
    (mode = "loader_download") =>
        /\ IsPrefix(ArgsOf("RETR", "services"), Expected("services", DlFileList))
        /\ IsPrefix(ArgsOf("RETR", "xml"), Expected("xml", STC_XML_FILE))
        /\ (pc \in {"dl_xml_cwd", "dl_xml_nlst", "dl_xml_get", "dl_done", "run_end", "run_returned"}
            /\ exc = "none") =>
               ArgsOf("RETR", "services") = Expected("services", DlFileList)
        /\ (pc \in {"dl_done", "run_end", "run_returned"} /\ exc = "none") =>
               ArgsOf("RETR", "xml") = Expected("xml", STC_XML_FILE)

C11_Witness ==
    /\ mode = "loader_download" /\ dtype = "ALL"
    /\ pc = "run_returned" /\ exc = "none"
    /\ listing["services"] = <<N_radio, N_picon>>
    /\ listing["xml"] = <<N_userbouquet, N_satellites>>
    /\ ArgsOf("RETR", "services") = <<N_radio>>
    /\ ArgsOf("RETR", "xml") = <<N_satellites>>

(* The names a picon operation acted on (op is RETR, STOR or DELE), in order. *)
Acted(op) == LET Test(e) == e.op = op
                 sel == SelectSeq(events, Test)
             IN  [i \in 1..Len(sel) |-> sel[i].arg]

(* The candidate names filtered by picons_filter_function(files_filter). *)
PiconSubset(candidates) == LET Test(f) == picons_filter_function(files_filter, f)
                           IN  SelectSeq(candidates, Test)

PiconLoopOver == exc = "none" /\ pc \in {"run_returned", "up_exit", "rm_exit"}

(* C12: download_picons, upload_picons and delete_picons act on the subset  *)
(* of their candidate names that the one predicate                          *)
(* picons_filter_function(files_filter) selects: while an operation runs    *)
(* the names it acted on are a prefix of that subset, and all of it when    *)
(* the operation has ended without an exception.                            *)
C12_PiconOperationsShareFilter ==
    /\ (mode = "loader_download" /\ dtype = "PICONS") =>
           /\ IsPrefix(Acted("RETR"), PiconSubset(listing["picons"]))
           /\ PiconLoopOver => Acted("RETR") = PiconSubset(listing["picons"])
    /\ (mode = "upload_data" /\ dtype = "PICONS") =>
           /\ IsPrefix(Acted("STOR"), PiconSubset(localDir))
           /\ PiconLoopOver => Acted("STOR") = PiconSubset(localDir)
    /\ (mode = "remove_picons") =>
           /\ IsPrefix(Acted("DELE"), PiconSubset(listing["picons"]))
           /\ PiconLoopOver => Acted("DELE") = PiconSubset(listing["picons"])

C12_Witness ==
    /\ mode = "remove_picons" /\ pc = "rm_exit" /\ exc = "none"
    /\ files_filter = [given |-> TRUE, names |-> {N_lamedb}]
    /\ listing["picons"] = <<N_picon, N_lamedb>>
    /\ Acted("DELE") = <<N_lamedb>>

(* The writes of a command to the telnet session, failed ones included. *)
CommandWrites == {i \in DOMAIN events : events[i].op = "TN" /\ events[i].arg \notin {<<"user">>, <<"password">>}}

Writes(arg) == {i \in DOMAIN events : events[i].op = "TN" /\ events[i].arg = arg}

PreTransferIssued ==
    \E i \in DOMAIN events :
        \/ IsEv(i, "TN", <<"init 4">>) /\ events[i].res = "ok"
        \/ IsEv(i, "HTTP", <<"powerstate?newstate=0">>)

(* The step that raised: the FTP connection or a step of the transfer. *)
TransferRaised ==
    /\ exc # "none"
    /\ events # <<>>
    /\ events[Len(events)].op \in {"CONNECT", "CWD", "MKD", "NLST", "STOR", "DELE"}
    /\ events[Len(events)].res # "ok"

(* C27: in upload_data, when the FTP connection or a step of the transfer   *)
(* raises after the control step before the transfer was taken, "init 3" is *)
(* not written, no HTTP reload or wakeup command is sent and done_callback  *)
(* is not called; the telnet session is closed.                             *)
C27_NoResumeAfterFailedTransfer ==
    (mode = "upload_data" /\ PreTransferIssued /\ TransferRaised) =>
        /\ ~Has("TN", <<"init 3">>)
        /\ \A i \in DOMAIN events : ~IsReload(events[i])
        /\ ~Has("HTTP", <<"powerstate?newstate=4">>)
        /\ ~HasOp("DONE_CB")
        /\ pc \in {"up_finally", "up_exit"}
        /\ pc = "up_exit" => tn \in {"none", "closed", "finished"} /\ sock # "open"

(* An upload over telnet whose transfer raised after a file was stored. *)
C27_Witness ==
    /\ mode = "upload_data" /\ ~http /\ pc = "up_exit"
    /\ PreTransferIssued /\ TransferRaised
    /\ HasOp("STOR")
    /\ tn = "closed"

(* A run whose transfers are those of a picon operation. *)
PiconRun == \/ mode \in {"upload_data", "loader_download"} /\ dtype = "PICONS"
            \/ mode = "remove_picons"

(* C29: download_picons, upload_picons and delete_picons retrieve, store or *)
(* delete a file only while the working directory of the session is the     *)
(* picon directory asked for; after a failed change into it, whatever the   *)
(* error, no file is retrieved, stored or deleted.                          *)
C29_PiconOpsStayInDirectory ==
    PiconRun =>
        \A i \in DOMAIN events :
            events[i].op \in {"RETR", "STOR", "DELE"} => events[i].dir = "picons"

(* The same for download_picons and delete_picons alone, which return or    *)
(* raise when the change of directory fails.                                *)
PiconDownloadDeleteStayInDirectory ==
    (PiconRun /\ mode # "upload_data") =>
        \A i \in DOMAIN events :
            events[i].op \in {"RETR", "DELE"} => events[i].dir = "picons"

(* C13 as claimed: with a filename set supplied as files_filter, the empty  *)
(* set included, no name outside the set is downloaded, uploaded or deleted *)
(* by a picon operation.                                                    *)
C13_SuppliedSetIsExact ==
    (dtype = "PICONS" /\ files_filter.given) =>
        \A i \in DOMAIN events :
            events[i].op \in {"RETR", "STOR", "DELE"} => events[i].arg \in files_filter.names


(***************************************************************************)
(* The main window: the handlers that start sync workers, the worker       *)
(* threads, and the signals they queue to the GUI thread.                  *)
(***************************************************************************)

(* A worker thread is a DataLoader (download or upload) or a PiconDeleter. *)
StartWorker(kind) == workers' = Append(workers, [kind |-> kind, st |-> "started"])

(* on_data_download: both buttons are disabled, a DataLoader is started.   *)
(* A disabled button emits no clicked signal.                              *)
on_data_download == /\ download_tool_button
                    /\ Len(workers) < MaxSyncs
                    /\ download_tool_button' = FALSE
                    /\ upload_tool_button' = FALSE
                    /\ StartWorker("download")
                    /\ UNCHANGED <<queue, uilog, syncVars, codecVars>>

(* on_data_upload, confirmed: as on_data_download, with upload=True. *)
on_data_upload == /\ upload_tool_button
                  /\ Len(workers) < MaxSyncs
                  /\ upload_tool_button' = FALSE
                  /\ download_tool_button' = FALSE
                  /\ StartWorker("upload")
                  /\ UNCHANGED <<queue, uilog, syncVars, codecVars>>

(* on_picon_remove_from_receiver: a PiconDeleter is created and started. *)
on_picon_remove_from_receiver == /\ Len(workers) < MaxSyncs
                                 /\ StartWorker("deleter")
                                 /\ UNCHANGED <<download_tool_button, upload_tool_button, queue,
                                                uilog, syncVars, codecVars>>

(* on_stack_page_changed: upload_tool_button.setEnabled(is_file_action) *)
on_stack_page_changed == /\ \E is_file_action \in BOOLEAN : upload_tool_button' = is_file_action
                         /\ upload_tool_button' # upload_tool_button
                         /\ UNCHANGED <<download_tool_button, workers, queue, uilog, syncVars, codecVars>>

Sig(id, name) == [id |-> id, sig |-> name]

(* DataLoader.run in its thread: nothing for an upload; for a download the  *)
(* status messages of download_data, or error_message and then the         *)
(* "Error: " message when it raised.                                       *)
LoaderThreadRun(id) == /\ id \in DOMAIN workers
                       /\ workers[id].st = "started"
                       /\ workers[id].kind \in {"download", "upload"}
                       /\ workers' = [workers EXCEPT ![id].st = "ran"]
                       /\ IF workers[id].kind = "upload"
                          THEN UNCHANGED queue
                          ELSE \E raised \in BOOLEAN :
                                  queue' = queue \o IF raised
                                                    THEN <<Sig(id, "error_message"), Sig(id, "message")>>
                                                    ELSE <<Sig(id, "message")>>
                       /\ UNCHANGED <<download_tool_button, upload_tool_button, uilog, syncVars, codecVars>>

(* PiconDeleter.run in its thread: the same signals around remove_picons. *)
DeleterThreadRun(id) == /\ id \in DOMAIN workers
                        /\ workers[id].st = "started"
                        /\ workers[id].kind = "deleter"
                        /\ workers' = [workers EXCEPT ![id].st = "ran"]
                        /\ \E raised \in BOOLEAN :
                              queue' = queue \o IF raised
                                                THEN <<Sig(id, "error_message"), Sig(id, "message")>>
                                                ELSE <<Sig(id, "message")>>
                        /\ UNCHANGED <<download_tool_button, upload_tool_button, uilog, syncVars, codecVars>>

(* A loader whose completion signal is tied to the success of run, not to  *)
(* the end of the thread.                                                  *)
ThreadFinished_OnlyOnSuccess(id) ==
    /\ id \in DOMAIN workers
    /\ workers[id].st = "ran"
    /\ workers' = [workers EXCEPT ![id].st = "finished"]
    /\ queue' = IF \E i \in DOMAIN (uilog \o queue) :
                         (uilog \o queue)[i] = Sig(id, "error_message")
                THEN queue
                ELSE Append(queue, Sig(id, "loaded"))
    /\ UNCHANGED <<download_tool_button, upload_tool_button, uilog, syncVars, codecVars>>

(* The thread ends: QThread.finished, which DataLoader.__init__ connects to *)
(* loaded.emit(self.download_type).                                        *)
ThreadFinished(id) == /\ id \in DOMAIN workers
                      /\ workers[id].st = "ran"
                      /\ workers' = [workers EXCEPT ![id].st = "finished"]
                      /\ queue' = Append(queue, Sig(id, "loaded"))
                      /\ UNCHANGED <<download_tool_button, upload_tool_button, uilog, syncVars, codecVars>>

(* The GUI thread handles the next queued signal with the slot connected   *)
(* to it: on_data_load_error for error_message, on_data_load_done or       *)
(* on_data_upload_done for loaded of a DataLoader, the log for message.    *)
GuiDeliver == /\ queue # <<>>
              /\ queue' = Tail(queue)
              /\ uilog' = Append(uilog, Head(queue))
              /\ LET s == Head(queue) IN
                 /\ IF \/ s.sig = "error_message"
                       \/ s.sig = "loaded" /\ workers[s.id].kind \in {"download", "upload"}
                    THEN /\ download_tool_button' = TRUE
                         /\ upload_tool_button' = TRUE
                    ELSE UNCHANGED <<download_tool_button, upload_tool_button>>
                 /\ workers' = IF s.sig = "loaded" THEN [workers EXCEPT ![s.id].st = "delivered"]
                               ELSE workers
              /\ UNCHANGED <<syncVars, codecVars>>

InitMain == SyncIdle /\ UiIdle /\ CodecIdle

NextMain == \/ on_data_download
            \/ on_data_upload
            \/ on_picon_remove_from_receiver
            \/ on_stack_page_changed
            \/ \E id \in 1..MaxSyncs : LoaderThreadRun(id)
            \/ \E id \in 1..MaxSyncs : DeleterThreadRun(id)
            \/ \E id \in 1..MaxSyncs : ThreadFinished(id)
            \/ GuiDeliver

SpecMain == InitMain /\ [][NextMain]_vars

(* The workers whose completion callback (loaded) is not yet delivered. *)
ActiveSyncs == {id \in DOMAIN workers : workers[id].st # "delivered"}

(* C7 as claimed: at most one sync worker is active at a time; a request    *)
(* made before the previous loaded was delivered starts nothing.           *)
C7_AtMostOneActiveSync == Cardinality(ActiveSyncs) <= 1

(* The signals of the workers in the order the GUI thread handles them:    *)
(* those handled, then those still queued.                                 *)
Stream == uilog \o queue

Loaders == {id \in DOMAIN workers : workers[id].kind \in {"download", "upload"}}

Pos(id, name) == {i \in DOMAIN Stream : Stream[i] = Sig(id, name)}

(* C30: a DataLoader emits loaded exactly once per run, when its thread has *)
(* ended, after every message and error_message of the run; a failed run    *)
(* emits error_message, then its message, then loaded all the same.         *)
C30_LoadedOnceAfterMessages ==
    \A id \in Loaders :
        /\ Cardinality(Pos(id, "loaded"))
               = (IF workers[id].st \in {"finished", "delivered"} THEN 1 ELSE 0)
        /\ \A i \in Pos(id, "loaded") :
               \A j \in Pos(id, "message") \cup Pos(id, "error_message") : j < i
        /\ \A i \in Pos(id, "error_message") : i + 1 \in Pos(id, "message")
        /\ workers[id].st = "delivered"
               <=> \E i \in DOMAIN uilog : uilog[i] = Sig(id, "loaded")

(* A failed download whose error_message and message are handled (both      *)
(* buttons are enabled again by on_data_load_error) while its loaded is     *)
(* emitted and not yet handled.                                             *)
C30_Witness ==
    \E id \in Loaders :
        /\ workers[id].kind = "download" /\ workers[id].st = "finished"
        /\ \E i \in DOMAIN uilog : /\ uilog[i] = Sig(id, "error_message")
                                   /\ i < Len(uilog)
                                   /\ uilog[i + 1] = Sig(id, "message")
        /\ \E i \in DOMAIN queue : queue[i] = Sig(id, "loaded")
        /\ download_tool_button /\ upload_tool_button

(***************************************************************************)
(* The satellites.xml codec (app/satellites/satxml.py) and the lookup      *)
(* tables of app/enigma/ecommons.py.                                       *)
(*                                                                         *)
(* Attribute values and codes are strings of the file: sequences of        *)
(* characters, <<>> the empty string.  NoneVal is Python's None; for an    *)
(* attribute of an element it stands for "the element has no such          *)
(* attribute".  The display values of the tables are atoms.                *)
(***************************************************************************)
NoneVal == <<"None">>

Digits == {"0", "1", "2", "3", "4", "5", "6", "7", "8", "9"}

(* str.isdigit *)
isdigit(s) == Len(s) > 0 /\ \A i \in 1..Len(s) : s[i] \in Digits

(* Truth value of a string or None. *)
Truthy(v) == v # NoneVal /\ v # <<>>

(* A dict is the sequence of its items, in insertion order. *)
POLARIZATION == << [k |-> <<"0">>, v |-> "H"], [k |-> <<"1">>, v |-> "V"],
                  [k |-> <<"2">>, v |-> "L"], [k |-> <<"3">>, v |-> "R"] >>

FEC == << [k |-> <<"0">>, v |-> "Auto"], [k |-> <<"1">>, v |-> "1/2"], [k |-> <<"2">>, v |-> "2/3"],
         [k |-> <<"3">>, v |-> "3/4"], [k |-> <<"4">>, v |-> "5/6"], [k |-> <<"5">>, v |-> "7/8"],
         [k |-> <<"6">>, v |-> "8/9"], [k |-> <<"7">>, v |-> "3/5"], [k |-> <<"8">>, v |-> "4/5"],
         [k |-> <<"9">>, v |-> "9/10"], [k |-> <<"1","0">>, v |-> "1/2"],
         [k |-> <<"1","1">>, v |-> "2/3"], [k |-> <<"1","2">>, v |-> "3/4"],
         [k |-> <<"1","3">>, v |-> "5/6"], [k |-> <<"1","4">>, v |-> "7/8"],
         [k |-> <<"1","5">>, v |-> "8/9"], [k |-> <<"1","6">>, v |-> "3/5"],
         [k |-> <<"1","7">>, v |-> "4/5"], [k |-> <<"1","8">>, v |-> "9/10"],
         [k |-> <<"1","9">>, v |-> "1/2"], [k |-> <<"2","0">>, v |-> "2/3"],
         [k |-> <<"2","1">>, v |-> "3/4"], [k |-> <<"2","2">>, v |-> "5/6"],
         [k |-> <<"2","3">>, v |-> "7/8"], [k |-> <<"2","4">>, v |-> "8/9"],
         [k |-> <<"2","5">>, v |-> "3/5"], [k |-> <<"2","6">>, v |-> "4/5"],
         [k |-> <<"2","7">>, v |-> "9/10"], [k |-> <<"2","8">>, v |-> "Auto"] >>

SYSTEM == << [k |-> <<"0">>, v |-> "DVB-S"], [k |-> <<"1">>, v |-> "DVB-S2"] >>

MODULATION == << [k |-> <<"0">>, v |-> "Auto"], [k |-> <<"1">>, v |-> "QPSK"],
                [k |-> <<"2">>, v |-> "8PSK"], [k |-> <<"4">>, v |-> "16APSK"],
                [k |-> <<"5">>, v |-> "32APSK"] >>

HasKey(dc, key) == \E i \in DOMAIN dc : dc[i].k = key

Item(dc, key) == dc[CHOOSE i \in DOMAIN dc : dc[i].k = key].v

DictValues(dc) == {dc[i].v : i \in DOMAIN dc}

(* get_key_by_value: the first key with the value; None when there is none. *)
get_key_by_value(dc, value) ==
    IF value \in DictValues(dc)
    THEN dc[CHOOSE i \in DOMAIN dc : dc[i].v = value /\ \A j \in 1..(i - 1) : dc[j].v # value].k
    ELSE NoneVal

(* The attributes of a transponder element / fields of a Transponder. *)
RequiredAttrs == {"frequency", "symbol_rate", "polarization", "fec_inner", "system", "modulation"}

OptionalAttrs == {"pls_mode", "pls_code", "is_id"}

(* el.hasAttributes() *)
hasAttributes(el) == \E a \in RequiredAttrs \cup OptionalAttrs : el[a] # NoneVal

(* The Transponder(...) expression of parse_transponders raises: atr[name]  *)
(* of a missing attribute, or a code that is no key of its table.           *)
TransponderRaises(el) == \/ \E a \in RequiredAttrs : el[a] = NoneVal
                         \/ ~HasKey(POLARIZATION, el.polarization)
                         \/ ~HasKey(FEC, el.fec_inner)
                         \/ ~HasKey(SYSTEM, el.system)
                         \/ ~HasKey(MODULATION, el.modulation)

(* The Transponder tuple parse_transponders builds of an element. *)
TransponderOf(el) == [frequency |-> el.frequency,
                      symbol_rate |-> el.symbol_rate,
                      polarization |-> Item(POLARIZATION, el.polarization),
                      fec_inner |-> Item(FEC, el.fec_inner),
                      system |-> Item(SYSTEM, el.system),
                      modulation |-> Item(MODULATION, el.modulation),
                      pls_mode |-> el.pls_mode,
                      pls_code |-> el.pls_code,
                      is_id |-> el.is_id]

(* Mutation of parse_transponders: the first failure ends the parse. *)
RECURSIVE parse_transponders_FailFast(_)
parse_transponders_FailFast(elems) ==
    IF elems = <<>> THEN [transponders |-> <<>>, logged |-> 0]
    ELSE LET el == Head(elems)
             rest == parse_transponders_FailFast(Tail(elems))
         IN  IF ~hasAttributes(el) THEN rest
             ELSE IF TransponderRaises(el) THEN [transponders |-> <<>>, logged |-> 1]
             ELSE [rest EXCEPT !.transponders = <<TransponderOf(el)>> \o @]

(* parse_transponders: the Transponder tuples of the elements that have     *)
(* attributes and parse; each one that raises is logged and left out.       *)
RECURSIVE parse_transponders(_)
parse_transponders(elems) ==
    IF elems = <<>> THEN [transponders |-> <<>>, logged |-> 0]
    ELSE LET el == Head(elems)
             rest == parse_transponders(Tail(elems))
         IN  IF ~hasAttributes(el) THEN rest
             ELSE IF TransponderRaises(el) THEN [rest EXCEPT !.logged = @ + 1]
             ELSE [rest EXCEPT !.transponders = <<TransponderOf(el)>> \o @]

(* parse_sat: Satellite(name, flags, position, parse_transponders(elem)) *)
parse_sat(elem) == [name |-> elem.name, flags |-> elem.flags, position |-> elem.position,
                    transponders |-> parse_transponders(elem.transponders).transponders]

(* A sat element without attributes is left out by get_satellites. *)
SatHasAttributes(elem) == elem.name # NoneVal

(* get_satellites: parse_sat of every sat element that has attributes. *)
RECURSIVE get_satellites(_)
get_satellites(d) ==
    IF d = <<>> THEN [satellites |-> <<>>, logged |-> 0]
    ELSE LET elem == Head(d)
             rest == get_satellites(Tail(d))
         IN  IF ~SatHasAttributes(elem) THEN rest
             ELSE [satellites |-> <<parse_sat(elem)>> \o rest.satellites,
                   logged |-> parse_transponders(elem.transponders).logged + rest.logged]

(* setAttribute(name, None): the document is written with an empty value. *)
Attr(v) == IF v = NoneVal THEN <<>> ELSE v

(* x or "0" *)
OrZero(v) == IF Truthy(v) THEN v ELSE <<"0">>

(* write_satellites: the transponder element created of a Transponder. *)
WriteTransponder(tr) ==
    [frequency |-> Attr(tr.frequency),
     symbol_rate |-> Attr(tr.symbol_rate),
     polarization |-> Attr(get_key_by_value(POLARIZATION, tr.polarization)),
     fec_inner |-> OrZero(get_key_by_value(FEC, tr.fec_inner)),
     system |-> OrZero(get_key_by_value(SYSTEM, tr.system)),
     modulation |-> OrZero(get_key_by_value(MODULATION, tr.modulation)),
     pls_mode |-> IF Truthy(tr.pls_mode) THEN tr.pls_mode ELSE NoneVal,
     pls_code |-> IF Truthy(tr.pls_code) THEN tr.pls_code ELSE NoneVal,
     is_id |-> IF Truthy(tr.is_id) THEN tr.is_id ELSE NoneVal]

(* write_satellites: the sat elements of the document written. *)
write_satellites(sats) ==
    [i \in 1..Len(sats) |->
        [name |-> sats[i].name, flags |-> sats[i].flags, position |-> sats[i].position,
         transponders |-> [j \in 1..Len(sats[i].transponders) |->
                              WriteTransponder(sats[i].transponders[j])]]]

(* int(x): "ok", or the exception raised.  The strings of the model are     *)
(* made of digits and letters, without sign, blank or underscore.           *)
int(x) == IF x = NoneVal THEN "TypeError" ELSE IF isdigit(x) THEN "ok" ELSE "ValueError"

(* The try block of is_transponder_valid: the first int() that raises. *)
IntChecks(tr) == << int(tr.frequency), int(tr.symbol_rate),
                    IF tr.pls_mode = NoneVal THEN "ok" ELSE int(tr.pls_mode),
                    IF tr.pls_code = NoneVal THEN "ok" ELSE int(tr.pls_code),
                    IF tr.is_id = NoneVal THEN "ok" ELSE int(tr.is_id) >>

FirstRaised(checks) == IF \A i \in DOMAIN checks : checks[i] = "ok" THEN "ok"
                       ELSE checks[CHOOSE i \in DOMAIN checks :
                                      checks[i] # "ok" /\ \A j \in 1..(i - 1) : checks[j] = "ok"]

(* is_transponder_valid: "True", "False", or "ValueError" when it raises:   *)
(* only TypeError is caught.                                                *)
is_transponder_valid(tr) ==
    CASE FirstRaised(IntChecks(tr)) = "TypeError" -> "False"
      [] FirstRaised(IntChecks(tr)) = "ValueError" -> "ValueError"
      [] OTHER -> IF /\ tr.polarization \in DictValues(POLARIZATION)
                     /\ tr.fec_inner \in DictValues(FEC)
                     /\ tr.system \in DictValues(SYSTEM)
                     /\ tr.modulation \in DictValues(MODULATION)
                  THEN "True" ELSE "False"

(* Bound of the satellite model: transponder elements per sat element. *)
MaxTr == 2

(* A transponder element that parses, and the variations of it the model    *)
(* reads: a code shared by several FEC keys, a code that is no key, a       *)
(* missing attribute, no attribute at all, the optional attributes.         *)
BaseElement == [frequency |-> <<"1","1","7">>, symbol_rate |-> <<"2","7">>,
                polarization |-> <<"0">>, fec_inner |-> <<"1">>, system |-> <<"1">>,
                modulation |-> <<"2">>,
                pls_mode |-> NoneVal, pls_code |-> NoneVal, is_id |-> NoneVal]

NoAttributes == [a \in RequiredAttrs \cup OptionalAttrs |-> NoneVal]

Elements == {BaseElement,
             [BaseElement EXCEPT !.fec_inner = <<"1","0">>],
             [BaseElement EXCEPT !.polarization = <<"4">>],
             [BaseElement EXCEPT !.frequency = NoneVal],
             NoAttributes,
             [BaseElement EXCEPT !.polarization = <<"3">>, !.modulation = <<"5">>, !.pls_mode = <<"1">>,
                                 !.pls_code = <<"5">>, !.is_id = <<"3">>]}

ElementLists(max) == UNION {[1..n -> Elements] : n \in 0..max}

(* A document of the model has two sat elements. *)
SatNames == << <<"A">>, <<"B">> >>

(* The sat elements at position i of a document: one without attributes,    *)
(* or one with name, flags, position and a list of at most max transponder  *)
(* elements.                                                                *)
SatElements(i, max) ==
    {[name |-> NoneVal, flags |-> NoneVal, position |-> NoneVal, transponders |-> <<>>]}
    \cup {[name |-> SatNames[i], flags |-> <<"0">>, position |-> <<"1","3","0">>,
           transponders |-> trs] : trs \in ElementLists(max)}

(* The first sat element has up to MaxTr transponders, the second up to one. *)
Documents == {<<a, b>> : a \in SatElements(1, MaxTr), b \in SatElements(2, 1)}

(* Transponder tuples as the editor can hold them: one with every field in  *)
(* its table, and variations with a value no table has, a frequency that is *)
(* no number, a field that is None.                                         *)
BaseTransponder == [frequency |-> <<"1","1","7">>, symbol_rate |-> <<"2","7">>,
                    polarization |-> "H", fec_inner |-> "1/2", system |-> "DVB-S2",
                    modulation |-> "8PSK",
                    pls_mode |-> NoneVal, pls_code |-> NoneVal, is_id |-> NoneVal]

Transponders == {BaseTransponder,
                 [BaseTransponder EXCEPT !.polarization = "X"],
                 [BaseTransponder EXCEPT !.fec_inner = "x"],
                 [BaseTransponder EXCEPT !.system = "y", !.modulation = "z"],
                 [BaseTransponder EXCEPT !.frequency = <<"a","b","c">>],
                 [BaseTransponder EXCEPT !.frequency = NoneVal],
                 [BaseTransponder EXCEPT !.polarization = "X", !.frequency = NoneVal],
                 [BaseTransponder EXCEPT !.pls_mode = <<"0">>, !.pls_code = <<>>, !.is_id = <<"x">>]}

(* MainWindow, satellites page: get_satellites(path) fills the model. *)
GetSatellites == /\ cpc = "sat_file"
                 /\ satellites' = get_satellites(dom).satellites
                 /\ satlog' = get_satellites(dom).logged
                 /\ cpc' = "sat_model"
                 /\ UNCHANGED <<dom, doc, checked, syncVars, uiVars, iptvVars, flagVars, httpVars, testVars, fileVars>>

(* MainWindow, satellites page: write_satellites(model data, path) *)
WriteSatellites == /\ cpc = "sat_model"
                   /\ doc' = write_satellites(satellites)
                   /\ cpc' = "sat_written"
                   /\ UNCHANGED <<dom, satellites, satlog, checked, syncVars, uiVars, iptvVars, flagVars, httpVars, testVars, fileVars>>

(* is_transponder_valid(tr) for a transponder of the model. *)
IsTransponderValid == /\ cpc \in {"sat_model", "sat_written"}
                      /\ checked = <<>>
                      /\ \E i \in DOMAIN satellites : \E j \in DOMAIN satellites[i].transponders :
                            LET tr == satellites[i].transponders[j]
                            IN  checked' = <<[tr |-> tr, result |-> is_transponder_valid(tr)]>>
                      /\ UNCHANGED <<cpc, dom, satellites, doc, satlog, syncVars, uiVars, iptvVars, flagVars, httpVars, testVars, fileVars>>

(* A run starts from a document to read, or from Satellite tuples held by   *)
(* the editor.                                                              *)
InitSat == /\ SyncIdle
           /\ UiIdle
           /\ FileIdle
           /\ TestIdle
           /\ HttpIdle
           /\ IptvIdle
           /\ FlagIdle
           /\ doc = <<>>
           /\ satlog = 0
           /\ checked = <<>>
           /\ \/ /\ cpc = "sat_file"
                 /\ dom \in Documents
                 /\ satellites = <<>>
              \/ /\ cpc = "sat_model"
                 /\ dom = <<>>
                 /\ \E tr \in Transponders :
                       satellites = <<[name |-> SatNames[1], flags |-> <<"0">>,
                                       position |-> <<"1","3","0">>, transponders |-> <<tr>>]>>

NextSat == \/ GetSatellites
           \/ WriteSatellites
           \/ IsTransponderValid

SpecSat == InitSat /\ [][NextSat]_vars

(* A well-formed descriptor: every sat element has its attributes, every    *)
(* transponder element its six required attributes with codes of the tables. *)
WellFormed(d) == \A i \in DOMAIN d :
                    /\ d[i].name # NoneVal
                    /\ \A j \in DOMAIN d[i].transponders :
                          LET el == d[i].transponders[j]
                          IN  /\ \A a \in RequiredAttrs : el[a] # NoneVal
                              /\ el.polarization \in {POLARIZATION[k].k : k \in DOMAIN POLARIZATION}
                              /\ el.fec_inner \in {FEC[k].k : k \in DOMAIN FEC}
                              /\ el.system \in {SYSTEM[k].k : k \in DOMAIN SYSTEM}
                              /\ el.modulation \in {MODULATION[k].k : k \in DOMAIN MODULATION}

(* C14 as claimed: writing what was read of a well-formed descriptor gives  *)
(* back the descriptor: every satellite, every transponder, every attribute *)
(* code as it was read.                                                     *)
C14_SatellitesRoundTrip ==
    (cpc = "sat_written" /\ dom # <<>> /\ WellFormed(dom)) => doc = dom

(* C15 as claimed: an enum-coded field (polarization, fec_inner, system,    *)
(* modulation) whose value is in no table is written as the code "0".       *)
C15_UnresolvableWrittenAsZero ==
    (cpc = "sat_written") =>
        \A i \in DOMAIN satellites : \A j \in DOMAIN satellites[i].transponders :
            LET tr == satellites[i].transponders[j]
                el == doc[i].transponders[j]
            IN  /\ tr.polarization \notin DictValues(POLARIZATION) => el.polarization = <<"0">>
                /\ tr.fec_inner \notin DictValues(FEC) => el.fec_inner = <<"0">>
                /\ tr.system \notin DictValues(SYSTEM) => el.system = <<"0">>
                /\ tr.modulation \notin DictValues(MODULATION) => el.modulation = <<"0">>

(* C16 as claimed: is_transponder_valid yields False for a transponder      *)
(* whose frequency is no integer literal, and for one whose polarization is *)
(* no value of POLARIZATION.                                                *)
C16_InvalidTransponderYieldsFalse ==
    \A n \in DOMAIN checked :
        LET tr == checked[n].tr
        IN  (\/ tr.frequency = NoneVal
             \/ \E c \in DOMAIN tr.frequency : tr.frequency[c] \notin Digits
             \/ tr.frequency = <<>>
             \/ tr.polarization \notin {"H", "V", "L", "R"}) => checked[n].result = "False"

(* The transponder elements of a sat element that parse. *)
Parses(el) == /\ \A a \in RequiredAttrs : el[a] # NoneVal
              /\ \E k \in DOMAIN POLARIZATION : POLARIZATION[k].k = el.polarization
              /\ \E k \in DOMAIN FEC : FEC[k].k = el.fec_inner
              /\ \E k \in DOMAIN SYSTEM : SYSTEM[k].k = el.system
              /\ \E k \in DOMAIN MODULATION : MODULATION[k].k = el.modulation

IsSat(elem) == elem.name # NoneVal

KeptSats == SelectSeq(dom, IsSat)

SumOver(f) == LET RECURSIVE Sum(_)
                  Sum(n) == IF n = 0 THEN 0 ELSE f[n] + Sum(n - 1)
              IN  Sum(Len(f))

(* Per kept sat element: its transponder elements that do not come back. *)
Skipped == SumOver([k \in DOMAIN KeptSats |->
                       Len(KeptSats[k].transponders) - Len(SelectSeq(KeptSats[k].transponders, Parses))])

HexDigits == <<"0", "1", "2", "3", "4", "5", "6", "7", "8", "9", "A", "B", "C", "D", "E", "F">>

LowerHexDigits == <<"0", "1", "2", "3", "4", "5", "6", "7", "8", "9", "a", "b", "c", "d", "e", "f">>

(* format(n, "X") for base 16 and str(n) for base 10, n >= 0 *)
RECURSIVE ToBase(_, _)
ToBase(n, b) == IF n < b THEN <<HexDigits[n + 1]>>
                ELSE ToBase(n \div b, b) \o <<HexDigits[(n % b) + 1]>>

IsDigitOf(c, b) == \E v \in 1..b : HexDigits[v] = c \/ LowerHexDigits[v] = c

DigitValue(c) == (CHOOSE v \in 1..16 : HexDigits[v] = c \/ LowerHexDigits[v] = c) - 1

(* int(s, b) of a string of digits of base b *)
RECURSIVE FromBase(_, _)
FromBase(s, b) == IF s = <<>> THEN 0
                  ELSE FromBase(SubSeq(s, 1, Len(s) - 1), b) * b + DigitValue(s[Len(s)])

IsNumeral(s, b) == Len(s) > 0 /\ \A i \in 1..Len(s) : IsDigitOf(s[i], b)

Whitespace == {" ", "\n"}

RECURSIVE lstrip(_)
lstrip(s) == IF s # <<>> /\ Head(s) \in Whitespace THEN lstrip(Tail(s)) ELSE s

RECURSIVE rstrip(_)
rstrip(s) == IF s # <<>> /\ s[Len(s)] \in Whitespace THEN rstrip(SubSeq(s, 1, Len(s) - 1)) ELSE s

strip(s) == rstrip(lstrip(s))

(* str.split(sep) *)
RECURSIVE split(_, _)
split(s, sep) == IF \A i \in 1..Len(s) : s[i] # sep THEN <<s>>
                 ELSE LET i == CHOOSE k \in 1..Len(s) : s[k] = sep /\ \A j \in 1..(k - 1) : s[j] # sep
                      IN  <<SubSeq(s, 1, i - 1)>> \o split(SubSeq(s, i + 1, Len(s)), sep)

(* sep.join(parts) *)
RECURSIVE join(_, _)
join(parts, sep) == IF parts = <<>> THEN <<>>
                    ELSE IF Len(parts) = 1 THEN parts[1]
                    ELSE parts[1] \o <<sep>> \o join(Tail(parts), sep)

(* str.partition("#DESCRIPTION") *)
partition(s) == IF \A i \in 1..Len(s) : s[i] # "#DESCRIPTION" THEN [head |-> s, tail |-> <<>>]
                ELSE LET i == CHOOSE k \in 1..Len(s) :
                                 s[k] = "#DESCRIPTION" /\ \A j \in 1..(k - 1) : s[j] # "#DESCRIPTION"
                     IN  [head |-> SubSeq(s, 1, i - 1), tail |-> SubSeq(s, i + 1, Len(s))]

(* urllib.parse.quote: letters, digits and "/" stay, every other character  *)
(* of the model's URLs is percent-encoded.                                  *)
QuoteChar(c) == CASE c = ":" -> <<"%", "3", "A">>
                  [] c = "%" -> <<"%", "2", "5">>
                  [] c = " " -> <<"%", "2", "0">>
                  [] OTHER -> <<c>>

RECURSIVE quote(_)
quote(url) == IF url = <<>> THEN <<>> ELSE QuoteChar(Head(url)) \o quote(Tail(url))

(* urllib.parse.unquote: %XX becomes its character; anything else stays. *)
RECURSIVE unquote(_)
unquote(s) ==
    IF s = <<>> THEN <<>>
    ELSE IF Len(s) >= 3 /\ s[1] = "%" /\ IsDigitOf(s[2], 16) /\ IsDigitOf(s[3], 16)
         THEN LET code == 16 * DigitValue(s[2]) + DigitValue(s[3])
                  char == CASE code = 58 -> ":"
                            [] code = 37 -> "%"
                            [] code = 32 -> " "
                            [] OTHER -> "?"
              IN  <<char>> \o unquote(SubSeq(s, 4, Len(s)))
         ELSE <<Head(s)>> \o unquote(Tail(s))

(* IptvTypeModel: the stream type of each row of the type combo box. *)
IptvTypeModel == << <<"1">>, <<"4", "0", "9", "7">>, <<"5", "0", "0", "1">>, <<"5", "0", "0", "2">>,
                    <<"8", "1", "9", "3">>, <<"8", "7", "3", "9">> >>

(* get_fav_id: ENIGMA2_FAV_ID_FORMAT.format(stream_type, s_type, *params,   *)
(* quote(url), service_name, service_name, None)                            *)
get_fav_id(url, service_name, stream_type, params, s_type) ==
    <<" ">> \o (IF stream_type = <<>> THEN IptvTypeModel[2] ELSE stream_type)
    \o <<":", "0", ":">> \o ToBase(s_type, 10)
    \o <<":">> \o ToBase(params[1], 16) \o <<":">> \o ToBase(params[2], 16)
    \o <<":">> \o ToBase(params[3], 16) \o <<":">> \o ToBase(params[4], 16)
    \o <<":", "0", ":", "0", ":", "0", ":">> \o quote(url) \o <<":">> \o service_name
    \o <<"\n", "#DESCRIPTION", ":", " ">> \o service_name \o <<"\n">>

PNG == <<".", "p", "n", "g">>

(* import_m3u: the Service of one channel (name of #EXTINF, url line); the  *)
(* picon id is the constant p_id.                                           *)
m3u_service(url, name, sid_counter) ==
    [picon_id |-> <<"1", "_", "0", "_", "1", "_", "0", "_", "0", "_", "0", "_", "0", "_", "0", "_",
                    "0", "_", "0">> \o PNG,
     name |-> name,
     data_id |-> url,
     fav_id |-> get_fav_id(url, name, IptvTypeModel[2], <<sid_counter, 0, 0, 0>>, 1)]

(* The entries of the dialog. *)
NewDialog == [url_edit |-> <<>>, name_edit |-> <<>>, type_index |-> 1,
              dvb_type_edit |-> <<"1">>, sid_edit |-> <<"0">>, tid_edit |-> <<"0">>,
              nid_edit |-> <<"0">>, namespace_edit |-> <<"0">>]

(* IptvServiceDialog.__init__ with a service: the type model makes row 0    *)
(* current, the line edits are empty, then init_service_data fills the      *)
(* entries from the fav_id.  name_edit is not filled.                       *)
init_service_data(fav_id) ==
    LET data == split(partition(fav_id).head, ":")
        empty == [url_edit |-> <<>>, name_edit |-> <<>>, type_index |-> 0,
                  dvb_type_edit |-> <<>>, sid_edit |-> <<>>, tid_edit |-> <<>>,
                  nid_edit |-> <<>>, namespace_edit |-> <<>>]
    IN  IF Len(data) < 11 THEN empty
        ELSE [empty EXCEPT !.dvb_type_edit = data[3],
                           !.sid_edit = ToBase(FromBase(data[4], 16), 10),
                           !.tid_edit = ToBase(FromBase(data[5], 16), 10),
                           !.nid_edit = ToBase(FromBase(data[6], 16), 10),
                           !.namespace_edit = ToBase(FromBase(data[7], 16), 10),
                           !.url_edit = unquote(strip(data[11])),
                           !.type_index = IF \E r \in DOMAIN IptvTypeModel : IptvTypeModel[r] = strip(data[1])
                                          THEN (CHOOSE r \in DOMAIN IptvTypeModel :
                                                   IptvTypeModel[r] = strip(data[1])) - 1
                                          ELSE 0]

(* IptvServiceDialog.save: the Service built of the entries. *)
save(dialog) ==
    LET url == dialog.url_edit
        name == strip(dialog.name_edit)
        stream_type == IptvTypeModel[dialog.type_index + 1]
        dvb_type == FromBase(dialog.dvb_type_edit, 10)
        params == <<FromBase(dialog.sid_edit, 10), FromBase(dialog.tid_edit, 10),
                    FromBase(dialog.nid_edit, 10), FromBase(dialog.namespace_edit, 10)>>
    IN  [picon_id |-> join(<<stream_type, <<"0">>, ToBase(dvb_type, 16), ToBase(params[1], 10),
                             ToBase(params[2], 10), ToBase(params[3], 10), ToBase(params[4], 10),
                             <<"0">>, <<"0">>, <<"0">> >>, "_") \o PNG,
         name |-> name,
         data_id |-> url,
         fav_id |-> get_fav_id(url, name, stream_type, params, dvb_type)]

(* append_bouquet, IPTV service: data id and picon id of the fav_id. *)
append_bouquet(srv) ==
    LET fav_id_data == split(lstrip(srv.fav_id), ":")
    IN  [picon_id |-> IF Len(fav_id_data) > 10
                      THEN join(SubSeq(fav_id_data, 1, 10), "_") \o PNG
                      ELSE NoneVal,
         name |-> srv.name,
         data_id |-> IF Len(fav_id_data) > 10 THEN join(SubSeq(fav_id_data, 1, 11), ":") ELSE <<"0">>,
         fav_id |-> srv.fav_id]

(* What the user and the playlists of the model supply. *)
Urls == {<<"h", "t", "t", "p", ":", "/", "/", "a">>,
         <<"h", "t", "t", "p", ":", "/", "/", "a", ":", "8", "/", "b">>,
         <<"h", "t", "t", "p", ":", "/", "/", "a", "/", "%", "2", "0">>}

ServiceNames == {<<"A">>, <<"A", " ", "B">>, <<"A", ":", "B">>}

Ids == {0, 10}

DvbTypes == {1, 17}

(* on_import_m3u: import_m3u(path), one channel of the playlist. *)
ImportM3u == /\ cpc = "iptv_start"
             /\ \E url \in Urls, name \in ServiceNames, sid_counter \in {1, 10} :
                   service' = m3u_service(url, name, sid_counter)
             /\ cpc' = "iptv_service"
             /\ UNCHANGED <<previous, loaded, syncVars, uiVars, satVars, flagVars, httpVars, testVars, fileVars>>

(* on_add_iptv_service: IptvServiceDialog(), the user fills it, save. *)
IptvDialogNew ==
    /\ cpc = "iptv_start"
    /\ \E url \in Urls, name \in ServiceNames, type_index \in 0..5, dvb_type \in DvbTypes,
          sid \in Ids, nid \in Ids, namespace \in Ids :
          service' = save([NewDialog EXCEPT !.url_edit = url, !.name_edit = name,
                                            !.type_index = type_index,
                                            !.dvb_type_edit = ToBase(dvb_type, 10),
                                            !.sid_edit = ToBase(sid, 10),
                                            !.nid_edit = ToBase(nid, 10),
                                            !.namespace_edit = ToBase(namespace, 10)])
    /\ cpc' = "iptv_service"
    /\ UNCHANGED <<previous, loaded, syncVars, uiVars, satVars, flagVars, httpVars, testVars, fileVars>>

(* Service edit: IptvServiceDialog(service), saved as it opened. *)
IptvDialogEdit == /\ cpc = "iptv_service"
                  /\ previous' = service
                  /\ service' = save(init_service_data(service.fav_id))
                  /\ cpc' = "iptv_edited"
                  /\ UNCHANGED <<loaded, syncVars, uiVars, satVars, flagVars, httpVars, testVars, fileVars>>

(* A bouquet holding the service is loaded: append_bouquet. *)
AppendBouquet == /\ cpc \in {"iptv_service", "iptv_edited"}
                 /\ loaded' = append_bouquet(service)
                 /\ cpc' = "iptv_loaded"
                 /\ UNCHANGED <<service, previous, syncVars, uiVars, satVars, flagVars, httpVars, testVars, fileVars>>

InitIptv == /\ SyncIdle
            /\ UiIdle
            /\ FileIdle
            /\ TestIdle
            /\ HttpIdle
            /\ SatIdle
            /\ FlagIdle
            /\ IptvIdle
            /\ cpc = "iptv_start"

NextIptv == \/ ImportM3u
            \/ IptvDialogNew
            \/ IptvDialogEdit
            \/ AppendBouquet

SpecIptv == InitIptv /\ [][NextIptv]_vars

(* C18 as claimed: a service opened in the IPTV dialog and saved as it was  *)
(* decoded has the fav_id it had.                                           *)
C18_FavIdRoundTrip ==
    (cpc = "iptv_edited") => service.fav_id = previous.fav_id

(* C19 as claimed: the picon id derived of the fav_id when a bouquet is     *)
(* loaded is the picon id the service got when the dialog saved it or the   *)
(* playlist import created it: same identity fields, same PiconID.          *)
C19_SameIdentitySamePiconId ==
    (cpc = "iptv_loaded") => loaded.picon_id = service.picon_id

(***************************************************************************)
(* Flag.parse (app/enigma/ecommons.py)                                     *)
(***************************************************************************)

(* Bound: the length of a token. *)
MaxToken == 4

(* The characters of the tokens: a prefix letter that is a hex digit too,   *)
(* the colon, decimal digits, a hex letter, and a letter that is no digit.  *)
TokenChars == {"f", ":", "0", "1", "2", "8", "A", "g"}

Tokens == UNION {[1..n -> TokenChars] : n \in 0..MaxToken}

Returned(n) == [raised |-> FALSE, value |-> n]

ValueError == [raised |-> TRUE, value |-> 0]

(* Mutation of Flag_parse: the remainder is always read as hexadecimal. *)
Flag_parse_AlwaysHex(value) ==
    IF Len(value) < 3 THEN Returned(0)
    ELSE LET v == SubSeq(value, 3, Len(value))
         IN  IF IsNumeral(v, 16) THEN Returned(FromBase(v, 16)) ELSE ValueError

(* Flag.parse: 0 for a token shorter than 3; value[2:] as decimal if        *)
(* isdigit(), else int(value, 16), which raises for what is no hex numeral. *)
Flag_parse(value) ==
    IF Len(value) < 3 THEN Returned(0)
    ELSE LET v == SubSeq(value, 3, Len(value))
         IN  IF isdigit(v) THEN Returned(FromBase(v, 10))
             ELSE IF IsNumeral(v, 16) THEN Returned(FromBase(v, 16))
             ELSE ValueError

(* Flag.parse(token) *)
ParseFlag == /\ cpc = "flag_token"
             /\ flag_value' = Flag_parse(flag_token)
             /\ cpc' = "flag_parsed"
             /\ UNCHANGED <<flag_token, flag_other, flag_tests, syncVars, uiVars, satVars, iptvVars, httpVars, testVars, fileVars>>

(* The bits of a non-negative integer: & , | and << of Python. *)
BitAnd(a, b) == LET RECURSIVE And(_, _)
                    And(x, y) == IF x = 0 \/ y = 0 THEN 0
                                 ELSE (x % 2) * (y % 2) + 2 * And(x \div 2, y \div 2)
                IN  And(a, b)

BitOr(a, b) == LET RECURSIVE Or(_, _)
                   Or(x, y) == IF x = 0 THEN y
                               ELSE IF y = 0 THEN x
                               ELSE (IF x % 2 = 1 \/ y % 2 = 1 THEN 1 ELSE 0) + 2 * Or(x \div 2, y \div 2)
               IN  Or(a, b)

Shl(a, k) == LET RECURSIVE S(_)
                 S(i) == IF i = 0 THEN a ELSE 2 * S(i - 1)
             IN  S(k)

(* The values of the members of Flag: KEEP, HIDE, PIDS, LOCK, NEW. *)
FlagValues == {1, 2, 4, 8, 40}

(* Mutation of is_new: the test is made with the value of Flag.NEW. *)
is_new_ByMemberValue(value) == BitAnd(value, 40)

(* value & 1 << n: the shift binds tighter than the & . *)
is_hide(value) == BitAnd(value, Shl(1, 1))

is_keep(value) == BitAnd(value, Shl(1, 0))

is_pids(value) == BitAnd(value, Shl(1, 2))

is_new(value) == BitAnd(value, Shl(1, 5))

FlagTests(value) == [keep |-> is_keep(value), hide |-> is_hide(value),
                     pids |-> is_pids(value), new |-> is_new(value)]

(* The four tests on the parsed flag, on a second flag, and on the two      *)
(* combined with | .                                                        *)
TestFlags == /\ cpc = "flag_parsed"
             /\ ~flag_value.raised
             /\ \E w \in FlagValues :
                    /\ flag_other' = w
                    /\ flag_tests' = [v |-> FlagTests(flag_value.value),
                                      w |-> FlagTests(w),
                                      vw |-> FlagTests(BitOr(flag_value.value, w))]
             /\ cpc' = "flag_tested"
             /\ UNCHANGED <<flag_token, flag_value, syncVars, uiVars, satVars, iptvVars, httpVars, testVars, fileVars>>

InitFlag == /\ SyncIdle
            /\ UiIdle
            /\ FileIdle
            /\ TestIdle
            /\ HttpIdle
            /\ SatIdle
            /\ IptvIdle
            /\ cpc = "flag_token"
            /\ flag_token \in Tokens
            /\ flag_value = NoValue
            /\ flag_other = 0
            /\ flag_tests = <<>>

NextFlag == ParseFlag \/ TestFlags

SpecFlag == InitFlag /\ [][NextFlag]_vars

(* The number a numeral denotes: the sum of its digits times the powers of  *)
(* the base.                                                                *)
Power(b, e) == LET RECURSIVE P(_)
                   P(k) == IF k = 0 THEN 1 ELSE b * P(k - 1)
               IN  P(e)

Denotes(s, b) == LET RECURSIVE Sum(_)
                     Sum(i) == IF i = 0 THEN 0
                               ELSE Sum(i - 1) + Power(b, Len(s) - i) *
                                    (CHOOSE d \in 0..15 : HexDigits[d + 1] = s[i] \/ LowerHexDigits[d + 1] = s[i])
                 IN  Sum(Len(s))

(* C20: Flag.parse gives 0 for a token shorter than 3 characters; otherwise *)
(* it drops the first two characters and reads the rest as decimal when it  *)
(* is made of decimal digits only, and as hexadecimal otherwise: "f:08" is  *)
(* 8 and "f:12" is 12.                                                      *)
C20_FlagParse ==
    (cpc = "flag_parsed") =>
        LET rest == SubSeq(flag_token, 3, Len(flag_token))
            decimal == \A i \in DOMAIN rest : rest[i] \in Digits
            hex == \A i \in DOMAIN rest : rest[i] \in Digits \cup {"A", "f"}
        IN  /\ Len(flag_token) < 3 => flag_value = Returned(0)
            /\ (Len(flag_token) >= 3 /\ decimal) => flag_value = Returned(Denotes(rest, 10))
            /\ (Len(flag_token) >= 3 /\ ~decimal /\ hex) => flag_value = Returned(Denotes(rest, 16))
            /\ flag_token = <<"f", ":", "0", "8">> => flag_value = Returned(8)
            /\ flag_token = <<"f", ":", "1", "2">> => flag_value = Returned(12)

C20_Witness ==
    /\ cpc = "flag_parsed"
    /\ flag_token = <<"f", ":", "1", "2">>
    /\ flag_value = Returned(12)

(* Bit n of a non-negative integer, by division. *)
Bit(v, n) == (v \div Power(2, n)) % 2

(* The integer with bit n of v inverted. *)
Toggle(v, n) == IF Bit(v, n) = 1 THEN v - Power(2, n) ELSE v + Power(2, n)

(* The bit each test reads. *)
TestBit == [keep |-> 0, hide |-> 1, pids |-> 2, new |-> 5]

(* C21: is_keep, is_hide, is_pids and is_new are truthy exactly when bit 0, *)
(* 1, 2 and 5 of the flag is set; inverting any other bit of the flag does  *)
(* not change the outcome; and a test that is truthy on v or on w is truthy *)
(* on v | w.                                                                *)
C21_BitTests ==
    (cpc = "flag_tested") =>
        LET v == flag_value.value
            w == flag_other
        IN  \A t \in DOMAIN TestBit :
                /\ (flag_tests.v[t] # 0) <=> (Bit(v, TestBit[t]) = 1)
                /\ (flag_tests.w[t] # 0) <=> (Bit(w, TestBit[t]) = 1)
                /\ \A n \in 0..7 : n # TestBit[t] =>
                       ((FlagTests(Toggle(v, n))[t] # 0) <=> (flag_tests.v[t] # 0))
                /\ (flag_tests.v[t] # 0 \/ flag_tests.w[t] # 0) => flag_tests.vw[t] # 0

(* A flag with bit 3 set and bit 5 clear, combined with NEW: is_new is      *)
(* falsy on the flag and truthy on the combination.                         *)
C21_Witness ==
    /\ cpc = "flag_tested"
    /\ flag_value = Returned(8)
    /\ flag_other = 40
    /\ flag_tests.v.new = 0
    /\ flag_tests.vw.new # 0
    /\ flag_tests.v.keep = 0

(***************************************************************************)
(* HttpAPI (app/connections.py)                                            *)
(***************************************************************************)

(* Bound: the requests posted to the receiver in one run. *)
MaxRequests == 4

(* The requests of HttpAPI.Request the model posts, by member name. *)
Commands == {"INFO", "STREAM", "STREAM_CURRENT", "CURRENT", "PLAYER_LIST", "EPG",
             "TIMER_LIST", "GRUB"}

(* The callbacks the main window registers. *)
MainCallbacks == {"INFO", "SIGNAL", "STREAM", "TIMER_LIST", "EPG", "GRUB", "REMOTE", "VOL"}

(* An element of a reply document: tag, text, child elements. *)
Node(tag, text, kids) == [tag |-> tag, text |-> text, kids |-> kids]

Leaf(tag, text) == Node(tag, text, <<>>)

Event(name) == Node("e2event", "None", <<Leaf("e2eventname", name)>>)

(* The documents the receiver answers with. *)
XmlDocs == {Node("e2eventlist", "None", <<Event("a"), Event("b")>>),
            Node("e2eventlist", "None", <<>>),
            Node("e2filelist", "None", <<Node("e2file", "None", <<Leaf("e2servicereference", "f")>>)>>),
            Node("e2timerlist", "None", <<Node("e2timer", "None", <<Leaf("e2name", "t")>>)>>),
            Node("e2abouts", "None", <<Node("e2about", "None", <<Leaf("e2model", "m")>>)>>),
            Leaf("e2sessionid", "s1")}

Xml(root) == [xml |-> TRUE, root |-> root]

Bytes(data) == [xml |-> FALSE, data |-> data]

(* What the receiver sends for a request: a playlist for the stream         *)
(* requests, an image for the screenshot, a document otherwise.             *)
Bodies(req) == IF req \in {"STREAM", "STREAM_CURRENT"} THEN {Bytes("m3u")}
               ELSE IF req = "GRUB" THEN {Bytes("jpg")}
               ELSE {Xml(d) : d \in XmlDocs}

(* QNetworkReply.error() of a finished reply. *)
ReplyErrors == {"NoError", "ConnectionRefusedError", "TimeoutError"}

(* Element.iter(): the element and its descendants, in document order. *)
RECURSIVE Iter(_)
Iter(el) == LET RECURSIVE Kids(_)
                Kids(i) == IF i > Len(el.kids) THEN <<>>
                           ELSE Iter(el.kids[i]) \o Kids(i + 1)
            IN  <<el>> \o Kids(1)

(* Element.iter(tag) *)
IterTag(el, tag) == SelectSeq(Iter(el), LAMBDA e : e.tag = tag)

(* {el.tag: el.text for el in els}: the last element of a tag wins. *)
Flatten(els) ==
    [t \in {els[i].tag : i \in DOMAIN els} |->
        els[CHOOSE i \in DOMAIN els :
                /\ els[i].tag = t
                /\ \A j \in DOMAIN els : els[j].tag = t => j <= i].text]

FlattenEach(els) == [i \in DOMAIN els |-> Flatten(Iter(els[i]))]

(* The values a callback is called with. *)
Raw(key, body) == [kind |-> "raw", key |-> key, data |-> body.data]

Mapping(items) == [kind |-> "mapping", items |-> items]

List(items) == [kind |-> "list", items |-> items]

KeyedList(key, items) == [kind |-> "keyed_list", key |-> key, items |-> items]

ErrorValue(reason) == [kind |-> "error", error |-> -1, reason |-> reason]

Result(calls, parsed, raised) == [calls |-> calls, parsed |-> parsed, raised |-> raised]

(* HttpAPI.handle_response: the calls of the callback, whether the reply    *)
(* was given to ETree.parse, and whether that raised. In the first test     *)
(* `type is HttpAPI.Request.STREAM_CURRENT` compares the builtin type with  *)
(* the member and is False for every request.                               *)
handle_response(req, er, body, callbacks) ==
    IF req \notin callbacks THEN Result(<<>>, FALSE, FALSE)
    ELSE IF er # "NoError" THEN Result(<<ErrorValue(er)>>, FALSE, FALSE)
    ELSE IF req = "STREAM" \/ FALSE THEN Result(<<Raw("m3u", body)>>, FALSE, FALSE)
    ELSE IF req = "GRUB" THEN Result(<<Raw("img_data", body)>>, FALSE, FALSE)
    ELSE IF ~body.xml THEN Result(<<>>, TRUE, TRUE)
    ELSE IF req = "CURRENT"
         THEN Result([i \in DOMAIN IterTag(body.root, "e2event") |->
                         Mapping(FlattenEach(IterTag(body.root, "e2event"))[i])], TRUE, FALSE)
    ELSE IF req = "PLAYER_LIST"
         THEN Result(<<List(FlattenEach(IterTag(body.root, "e2file")))>>, TRUE, FALSE)
    ELSE IF req = "EPG"
         THEN Result(<<KeyedList("event_list", FlattenEach(IterTag(body.root, "e2event")))>>, TRUE, FALSE)
    ELSE IF req = "TIMER_LIST"
         THEN Result(<<KeyedList("timer_list", FlattenEach(IterTag(body.root, "e2timer")))>>, TRUE, FALSE)
    ELSE Result(<<Mapping(Flatten(Iter(body.root)))>>, TRUE, FALSE)

(* HttpAPI.set_token: data.get("e2sessionid", "0") *)
set_token(data) ==
    IF data.kind = "mapping" /\ "e2sessionid" \in DOMAIN data.items
    THEN data.items["e2sessionid"] ELSE "0"

(* The token after the callbacks of a handled reply: set_token is the       *)
(* callback of the TOKEN request.                                           *)
TokenAfter(req, out) ==
    IF req = "TOKEN" /\ out.calls # <<>> THEN set_token(out.calls[Len(out.calls)]) ELSE _token

Outcome(req, er, body, out) ==
    [req |-> req, er |-> er, body |-> body, callback |-> req \in _callbacks,
     calls |-> out.calls, parsed |-> out.parsed, raised |-> out.raised]

Posted(req, by) == [req |-> req, by |-> by]

(* HttpAPI(settings, callbacks) and the first send(req) of the window. *)
HttpSend(req) ==
    /\ cpc = "http_new"
    /\ http_sent' = Append(http_sent, Posted(req, "window"))
    /\ pending' = pending \cup {Len(http_sent) + 1}
    /\ cpc' = "http_open"
    /\ UNCHANGED <<_auth, _token, _callbacks, handled, syncVars, uiVars, satVars, iptvVars, flagVars, testVars, fileVars>>

(* The receiver answers the request i with an authentication challenge:     *)
(* HttpAPI.auth. From the third challenge on the reply is aborted, which    *)
(* finishes it with an error (handle_response is connected to finished);    *)
(* the method goes on, registers set_token and posts a TOKEN request.       *)
Auth(i) ==
    /\ cpc = "http_open"
    /\ i \in pending
    /\ Len(http_sent) < MaxRequests
    /\ LET req == http_sent[i].req
           aborted == _auth + 1 >= 3
           body == Bytes("")
           out == handle_response(req, "OperationCanceledError", body, _callbacks)
       IN  /\ _auth' = _auth + 1
           /\ handled' = IF aborted THEN Outcome(req, "OperationCanceledError", body, out)
                         ELSE handled
           /\ _token' = IF aborted THEN TokenAfter(req, out) ELSE _token
           /\ _callbacks' = _callbacks \cup {"TOKEN"}
           /\ http_sent' = Append(http_sent, Posted("TOKEN", "auth"))
           /\ pending' = (IF aborted THEN pending \ {i} ELSE pending) \cup {Len(http_sent) + 1}
    /\ UNCHANGED <<cpc, syncVars, uiVars, satVars, iptvVars, flagVars, testVars, fileVars>>

(* The reply of the request i finishes: HttpAPI.handle_response. *)
HandleResponse(i, er) ==
    /\ cpc = "http_open"
    /\ i \in pending
    /\ \E body \in Bodies(http_sent[i].req) :
           LET req == http_sent[i].req
               out == handle_response(req, er, body, _callbacks)
           IN  /\ handled' = Outcome(req, er, body, out)
               /\ _token' = TokenAfter(req, out)
    /\ pending' = pending \ {i}
    /\ UNCHANGED <<cpc, _auth, _callbacks, http_sent, syncVars, uiVars, satVars, iptvVars, flagVars, testVars, fileVars>>

InitHttp == /\ SyncIdle
            /\ UiIdle
            /\ FileIdle
            /\ TestIdle
            /\ SatIdle
            /\ IptvIdle
            /\ FlagIdle
            /\ cpc = "http_new"
            /\ _auth = 0
            /\ _token = "0"
            /\ _callbacks \in {MainCallbacks, Commands}
            /\ http_sent = <<>>
            /\ pending = {}
            /\ handled = NoOutcome

NextHttp == \/ \E req \in Commands : HttpSend(req)
            \/ \E i \in 1..MaxRequests : Auth(i)
            \/ \E i \in 1..MaxRequests, er \in ReplyErrors : HandleResponse(i, er)

SpecHttp == InitHttp /\ [][NextHttp]_vars

(* C22: once the third authentication challenge has been handled, a         *)
(* challenge makes the client post no further request: the challenged       *)
(* request is aborted and the number of requests posted because of          *)
(* challenges stays bounded.                                                *)
C22_ChallengeRequestsBounded ==
    [][(_auth' # _auth /\ _auth' >= 3) => http_sent' = http_sent]_vars

(* C23: a successful reply of GRUB, STREAM or STREAM_CURRENT is given to    *)
(* the callback as the raw bytes and is never parsed; PLAYER_LIST, EPG and  *)
(* TIMER_LIST give a list of mappings; every other request gives flattened  *)
(* mappings.                                                                *)
C23_DispatchByCommand ==
    (handled.callback /\ handled.er = "NoError") =>
        /\ handled.req \in {"GRUB", "STREAM", "STREAM_CURRENT"} =>
               /\ ~handled.parsed
               /\ Len(handled.calls) = 1
               /\ handled.calls[1].kind = "raw"
               /\ handled.calls[1].data = handled.body.data
        /\ handled.req \in {"PLAYER_LIST", "EPG", "TIMER_LIST"} =>
               /\ Len(handled.calls) = 1
               /\ handled.calls[1].kind \in {"list", "keyed_list"}
        /\ handled.req \notin {"GRUB", "STREAM", "STREAM_CURRENT", "PLAYER_LIST", "EPG", "TIMER_LIST"} =>
               \A k \in DOMAIN handled.calls : handled.calls[k].kind = "mapping"

(* The same for the two binary requests the first test of handle_response   *)
(* does recognise.                                                          *)
RecognisedBinaryDelivered ==
    (handled.callback /\ handled.er = "NoError" /\ handled.req \in {"GRUB", "STREAM"}) =>
        /\ ~handled.parsed
        /\ handled.calls = <<Raw(IF handled.req = "GRUB" THEN "img_data" ELSE "m3u", handled.body)>>

(***************************************************************************)
(* Connections testing: test_ftp, test_telnet (app/connections.py)         *)
(***************************************************************************)

Return(value) == [kind |-> "returned", type |-> "", value |-> value]

Raise(type, value) == [kind |-> "raised", type |-> type, value |-> value]

(* socket.create_connection: connected, or one of the errors it raises. *)
ConnectOutcomes == {"ok", "socket.timeout", "ConnectionRefusedError", "OSError"}

(* Reply lines of the FTP server: 2xx, 3xx, 4xx, 5xx, and the end of the    *)
(* stream in place of a line.                                               *)
FtpReplies == {<<"2", "2", "0">>, <<"3", "3", "1">>, <<"4", "2", "1">>, <<"5", "3", "0">>, <<>>}

(* The exceptions that are an OSError. *)
OSErrors == {"OSError", "socket.timeout", "ConnectionRefusedError", "BrokenPipeError"}

(* FTP.getresp: the line is returned for 1xx, 2xx and 3xx; EOFError, *)
(* error_temp, error_perm and error_proto are raised otherwise.             *)
getresp(line) ==
    IF line = <<>> THEN Raise("EOFError", line)
    ELSE IF line[1] \in {"1", "2", "3"} THEN Return(line)
    ELSE IF line[1] = "4" THEN Raise("error_temp", line)
    ELSE IF line[1] = "5" THEN Raise("error_perm", line)
    ELSE Raise("error_proto", line)

(* FTP.login: USER, then PASS and ACCT while the reply is 3xx; error_reply  *)
(* unless the last reply is 2xx.                                            *)
login(env) ==
    LET u == getresp(env.user)
        p == getresp(env.pass)
        a == getresp(env.acct)
        last == IF u.value[1] # "3" THEN u ELSE IF p.value[1] # "3" THEN p ELSE a
    IN  IF u.kind = "raised" THEN u
        ELSE IF u.value[1] = "3" /\ p.kind = "raised" THEN p
        ELSE IF u.value[1] = "3" /\ p.value[1] = "3" /\ a.kind = "raised" THEN a
        ELSE IF last.value[1] # "2" THEN Raise("error_reply", last.value)
        ELSE last

(* FTP(host=host, user=user, passwd=password, timeout=timeout): connect,    *)
(* the welcome line, login when a user is given.                            *)
FTP(env) ==
    LET w == getresp(env.welcome)
        l == login(env)
    IN  IF env.connect # "ok" THEN Raise(env.connect, <<>>)
        ELSE IF w.kind = "raised" THEN w
        ELSE IF env.user_given /\ l.kind = "raised" THEN l
        ELSE w

(* FTP.__exit__: QUIT; OSError and EOFError are passed over, a reply that   *)
(* is not 2xx raises.                                                       *)
FtpExit(env) ==
    LET q == getresp(env.quit)
    IN  IF q.kind = "raised" THEN (IF q.type = "EOFError" THEN Return(<<>>) ELSE q)
        ELSE IF q.value[1] # "2" THEN Raise("error_reply", q.value)
        ELSE Return(<<>>)

(* test_ftp: the welcome line, or TestException for error_perm,             *)
(* ConnectionRefusedError and OSError; any other exception passes.          *)
test_ftp(env) ==
    LET ftp == FTP(env)
        out == IF ftp.kind = "raised" THEN ftp
               ELSE IF FtpExit(env).kind = "raised" THEN FtpExit(env)
               ELSE Return(ftp.value)
    IN  IF out.kind = "raised" /\ out.type \in {"error_perm"} \cup OSErrors
        THEN Raise("TestException", out.value)
        ELSE out

(* The letters of "password" in lower case; other characters stay. *)
ToLower(c) == CASE c = "P" -> "p" [] c = "A" -> "a" [] c = "S" -> "s" [] c = "W" -> "w"
                [] c = "O" -> "o" [] c = "R" -> "r" [] c = "D" -> "d" [] OTHER -> c

PasswordWord == <<"p", "a", "s", "s", "w", "o", "r", "d">>

(* re.search("password", msg, re.IGNORECASE) *)
SearchPassword(msg) ==
    \E i \in 1..Len(msg) :
        /\ i + Len(PasswordWord) - 1 <= Len(msg)
        /\ \A k \in 1..Len(PasswordWord) : ToLower(msg[i + k - 1]) = PasswordWord[k]

(* What read_very_eager gives: the bytes, and whether they are UTF-8. *)
Captured == {[utf8 |-> TRUE, text |-> <<"o", "k">>],
             [utf8 |-> TRUE, text |-> <<" ", "P", "a", "s", "s", "w", "o", "r", "d", ":", " ">>],
             [utf8 |-> TRUE, text |-> <<"b", "a", "d", " ", "P", "A", "S", "S", "W", "O", "R", "D">>],
             [utf8 |-> TRUE, text |-> <<"p", "a", "s", "s">>],
             [utf8 |-> FALSE, text |-> <<"o", "k">>]}

(* A read of the session: data, or EOFError when the peer has closed. *)
ReadOutcomes == {"data", "EOFError"}

(* A write to the session: sent, or the OSError of the socket. *)
WriteOutcomes == {"ok", "BrokenPipeError"}

(* telnet_test up to its first yield: connect, the login prompt, the user,  *)
(* the password prompt, the password, then read_very_eager.                 *)
telnet_test(env) ==
    IF env.connect # "ok" THEN Raise(env.connect, <<>>)
    ELSE IF env.login_prompt # "data" THEN Raise(env.login_prompt, <<>>)
    ELSE IF env.write_user # "ok" THEN Raise(env.write_user, <<>>)
    ELSE IF env.password_prompt # "data" THEN Raise(env.password_prompt, <<>>)
    ELSE IF env.write_password # "ok" THEN Raise(env.write_password, <<>>)
    ELSE IF env.eager # "data" THEN Raise(env.eager, <<>>)
    ELSE Return(env.captured)

(* test_telnet: the stripped text; TestException when it holds "password"   *)
(* in any letter case, and for socket.timeout and OSError; any other        *)
(* exception passes.                                                        *)
test_telnet(env) ==
    LET res == telnet_test(env)
        out == IF res.kind = "raised" THEN res
               ELSE IF ~res.value.utf8 THEN Raise("UnicodeDecodeError", <<>>)
               ELSE IF SearchPassword(strip(res.value.text))
                    THEN Raise("TestException", strip(res.value.text))
               ELSE Return(strip(res.value.text))
    IN  IF out.kind = "raised" /\ out.type \in OSErrors
        THEN Raise("TestException", out.value)
        ELSE out

FtpEnvs == [connect : ConnectOutcomes, user_given : BOOLEAN, welcome : FtpReplies,
            user : FtpReplies, pass : FtpReplies, acct : {<<"2", "2", "0">>, <<>>},
            quit : {<<"2", "2", "0">>, <<"4", "2", "1">>, <<>>}]

TelnetEnvs == [connect : ConnectOutcomes, login_prompt : ReadOutcomes, write_user : WriteOutcomes,
               password_prompt : ReadOutcomes, write_password : WriteOutcomes,
               eager : ReadOutcomes, captured : Captured]

TestFtp == /\ cpc = "test_ftp"
           /\ test_out' = test_ftp(test_env)
           /\ cpc' = "test_ftp_done"
           /\ UNCHANGED <<test_env, syncVars, uiVars, satVars, iptvVars, flagVars, httpVars, fileVars>>

TestTelnet == /\ cpc = "test_telnet"
              /\ test_out' = test_telnet(test_env)
              /\ cpc' = "test_telnet_done"
              /\ UNCHANGED <<test_env, syncVars, uiVars, satVars, iptvVars, flagVars, httpVars, fileVars>>

InitTest == /\ SyncIdle
            /\ UiIdle
            /\ FileIdle
            /\ SatIdle
            /\ IptvIdle
            /\ FlagIdle
            /\ HttpIdle
            /\ \/ cpc = "test_ftp" /\ test_env \in FtpEnvs
               \/ cpc = "test_telnet" /\ test_env \in TelnetEnvs
            /\ test_out = NoOut

NextTest == TestFtp \/ TestTelnet

SpecTest == InitTest /\ [][NextTest]_vars

TestDone == cpc \in {"test_ftp_done", "test_telnet_done"}

(* C24: test_ftp and test_telnet return the banner or raise TestException   *)
(* and nothing else, whatever the connection or the server does; and        *)
(* test_telnet raises TestException whenever the captured text holds        *)
(* "password" in any letter case.                                           *)
C24_OnlyTestException ==
    TestDone =>
        /\ test_out.kind = "raised" => test_out.type = "TestException"
        /\ (/\ cpc = "test_telnet_done"
            /\ telnet_test(test_env).kind = "returned"
            /\ test_env.captured.utf8
            /\ \E i \in 1..Len(test_env.captured.text) :
                   \A k \in 1..8 : /\ i + k - 1 <= Len(test_env.captured.text)
                                   /\ ToLower(test_env.captured.text[i + k - 1]) = PasswordWord[k])
           => test_out.type = "TestException"

(* What the two tests do wrap: timeouts, refused connections, other socket  *)
(* errors and, for FTP, permanent error replies (a rejected login) raise    *)
(* TestException; a captured text that holds "password" in any letter case  *)
(* raises TestException; a success returns the banner.                      *)
ConnectionErrorsAreTestException ==
    TestDone =>
        /\ test_env.connect # "ok" => test_out.type = "TestException"
        /\ (/\ cpc = "test_ftp_done"
            /\ test_env.connect = "ok"
            /\ test_env.welcome = <<"2", "2", "0">>
            /\ test_env.user_given
            /\ test_env.user = <<"5", "3", "0">>) => test_out.type = "TestException"
        /\ (/\ cpc = "test_ftp_done"
            /\ test_env.connect = "ok"
            /\ test_env.welcome = <<"2", "2", "0">>
            /\ test_env.user_given
            /\ test_env.user = <<"3", "3", "1">>
            /\ test_env.pass = <<"5", "3", "0">>) => test_out.type = "TestException"
        /\ (/\ cpc = "test_ftp_done"
            /\ test_env.connect = "ok"
            /\ test_env.welcome = <<"2", "2", "0">>
            /\ test_env.user_given
            /\ test_env.user = <<"3", "3", "1">>
            /\ test_env.pass = <<"2", "2", "0">>
            /\ test_env.quit = <<"2", "2", "0">>) => test_out = Return(test_env.welcome)
        /\ (/\ cpc = "test_telnet_done"
            /\ telnet_test(test_env).kind = "returned"
            /\ test_env.captured.utf8)
           => IF \E i \in 1..Len(test_env.captured.text) :
                     \A k \in 1..8 : /\ i + k - 1 <= Len(test_env.captured.text)
                                     /\ ToLower(test_env.captured.text[i + k - 1]) = PasswordWord[k]
              THEN test_out.type = "TestException"
              ELSE test_out.kind = "returned"
        /\ (cpc = "test_telnet_done" /\ test_env.connect = "ok" /\ test_env.login_prompt = "data"
            /\ test_env.write_user # "ok") => test_out.type = "TestException"

(* A telnet test whose captured text is " Password: ". *)
PasswordCaptured ==
    /\ cpc = "test_telnet_done"
    /\ telnet_test(test_env).kind = "returned"
    /\ test_env.captured.text = <<" ", "P", "a", "s", "s", "w", "o", "r", "d", ":", " ">>
    /\ test_out.type = "TestException"

(***************************************************************************)
(* UtfFTP: single-file and directory operations (app/connections.py)       *)
(***************************************************************************)

(* The names of the files and of the directory of the model. *)
FileNames == {"a", "c"}

DirNames == {"d"}

(* What the receiver answers to RETR, STOR, DELE or CWD of a name. *)
FtpAnswers == {"ok", "error_perm", "error_temp"}

(* The content of a local file. *)
Contents == {"absent", "old"}

F(n) == [kind |-> "file", name |-> n, kids |-> <<>>]

D(n, kids) == [kind |-> "dir", name |-> n, kids |-> kids]

(* The directory listings the directory operations walk. *)
Trees == {<<>>, <<F("a")>>, <<F("a"), D("d", <<F("c")>>)>>, <<D("d", <<F("c")>>), F("a")>>}

(* A call of an operation: the callback it was given, the sinks its status  *)
(* lines went to in order, the status returned, the exception raised.       *)
Call(op, name, callback, reports, resp, raised) ==
    [op |-> op, name |-> name, callback |-> callback, reports |-> reports,
     resp |-> resp, raised |-> raised]

(* callback(msg) if callback, else nothing. *)
IfCallback(cb) == IF cb THEN <<"callback">> ELSE <<>>

(* UtfFTP.download_file: open(save_path + name, "wb"), RETR; error_perm is  *)
(* caught and logged; then callback(msg) if callback else log(msg).         *)
download_file(name, cb, env) ==
    IF name \in env.locked THEN Call("download_file", name, cb, <<>>, "", "OSError")
    ELSE IF env.reply[name] = "ok"
         THEN Call("download_file", name, cb, IF cb THEN <<"callback">> ELSE <<"log">>, "226", "none")
    ELSE IF env.reply[name] = "error_perm"
         THEN Call("download_file", name, cb, <<"log">> \o (IF cb THEN <<"callback">> ELSE <<"log">>),
                   "550", "none")
    ELSE Call("download_file", name, cb, <<>>, "", "error_temp")

(* The local file after download_file: opening it for writing empties or    *)
(* creates it before the retrieval starts.                                  *)
Written(call, before) ==
    IF call.raised = "OSError" THEN before
    ELSE IF call.resp = "226" THEN "new"
    ELSE "empty"

(* UtfFTP.send_file: a missing local file is logged; any ftplib.Error of    *)
(* STOR is caught and logged; then callback(msg) if callback.               *)
send_file(name, cb, isfile, env) ==
    IF ~isfile THEN Call("send_file", name, cb, <<"log">>, "500 File not found.", "none")
    ELSE IF env.reply[name] = "ok" THEN Call("send_file", name, cb, IfCallback(cb), "226", "none")
    ELSE Call("send_file", name, cb, <<"log">> \o IfCallback(cb), "550", "none")

(* UtfFTP.delete_file(file, callback=log): how is "default" (log is the     *)
(* callback), "none" or "given".                                            *)
delete_file(name, how, env) ==
    LET called == IF how = "given" THEN <<"callback">>
                  ELSE IF how = "default" THEN <<"log">> ELSE <<>>
    IN  IF env.reply[name] = "ok" THEN Call("delete_file", name, how = "given", called, "250", "none")
        ELSE Call("delete_file", name, how = "given", <<"log">> \o called, "550", "none")

Walked(calls, raised) == [calls |-> calls, raised |-> raised]

(* UtfFTP.upload_dir: the files of the directory are sent with the          *)
(* callback; a sub-directory is entered and uploaded by                     *)
(* self.upload_dir(file + "/"), which passes no callback; a rejected CWD is *)
(* logged. At the end callback(msg) if callback.                            *)
RECURSIVE upload_dir(_, _, _, _)
upload_dir(path, entries, cb, env) ==
    LET RECURSIVE Loop(_)
        Loop(i) ==
            IF i > Len(entries) THEN <<>>
            ELSE LET e == entries[i]
                     this == IF e.kind = "file" THEN <<send_file(e.name, cb, TRUE, env)>>
                             ELSE IF env.reply[e.name] # "ok"
                                  THEN <<Call("upload_dir", e.name, FALSE, <<"log">>, "550", "none")>>
                             ELSE upload_dir(e.name, e.kids, FALSE, env)
                 IN  this \o Loop(i + 1)
    IN  Loop(1) \o <<Call("upload_dir", path, cb, IfCallback(cb), "200", "none")>>

(* UtfFTP.download_dir: a file is downloaded with the callback, an OSError  *)
(* of it is logged; a sub-directory is created locally (an OSError is       *)
(* logged and ends the call) and downloaded with the callback. At the end   *)
(* log(msg), and callback(msg) if callback.                                 *)
RECURSIVE download_dir(_, _, _, _)
download_dir(path, entries, cb, env) ==
    LET RECURSIVE Loop(_)
        Loop(i) ==
            IF i > Len(entries)
            THEN Walked(<<Call("download_dir", path, cb, <<"log">> \o IfCallback(cb), "226", "none")>>, "none")
            ELSE LET e == entries[i]
                     file == download_file(e.name, cb, env)
                     sub == download_dir(e.name, e.kids, cb, env)
                 IN  IF e.kind = "file"
                     THEN IF file.raised = "OSError"
                          THEN LET rest == Loop(i + 1)
                               IN  Walked(<<[file EXCEPT !.reports = <<"log">>]>> \o rest.calls, rest.raised)
                          ELSE IF file.raised # "none" THEN Walked(<<file>>, file.raised)
                          ELSE LET rest == Loop(i + 1)
                               IN  Walked(<<file>> \o rest.calls, rest.raised)
                     ELSE IF e.name \in env.locked
                          THEN Walked(<<Call("download_dir", e.name, cb, <<"log">>, "500", "none")>>, "none")
                     ELSE IF sub.raised # "none" THEN sub
                     ELSE LET rest == Loop(i + 1)
                          IN  Walked(sub.calls \o rest.calls, rest.raised)
    IN  Loop(1)

(* The local files after the calls: each download_file that opened its      *)
(* file has written it.                                                     *)
LocalAfter(fs, calls) ==
    [n \in DOMAIN fs |->
        IF \E k \in DOMAIN calls : calls[k].op = "download_file" /\ calls[k].name = n
        THEN Written(calls[CHOOSE k \in DOMAIN calls : calls[k].op = "download_file" /\ calls[k].name = n], fs[n])
        ELSE fs[n]]

FileEnvs == [reply : [FileNames \cup DirNames -> FtpAnswers], locked : SUBSET {"a", "d"}]

FileIns == [op : {"download_file", "send_file"}, name : FileNames, callback : BOOLEAN, env : FileEnvs]
           \cup [op : {"delete_file"}, name : FileNames, how : {"default", "none", "given"}, env : FileEnvs]
           \cup [op : {"upload_dir", "download_dir"}, tree : Trees, callback : BOOLEAN, env : FileEnvs]

DownloadFile == /\ cpc = "file_call"
                /\ file_in.op = "download_file"
                /\ file_calls' = <<download_file(file_in.name, file_in.callback, file_in.env)>>
                /\ local_fs' = LocalAfter(local_fs, file_calls')
                /\ cpc' = "file_done"
                /\ UNCHANGED <<file_in, syncVars, uiVars, satVars, iptvVars, flagVars, httpVars, testVars>>

SendFile == /\ cpc = "file_call"
            /\ file_in.op = "send_file"
            /\ file_calls' = <<send_file(file_in.name, file_in.callback,
                                         local_fs[file_in.name] # "absent", file_in.env)>>
            /\ cpc' = "file_done"
            /\ UNCHANGED <<file_in, local_fs, syncVars, uiVars, satVars, iptvVars, flagVars, httpVars, testVars>>

DeleteFile == /\ cpc = "file_call"
              /\ file_in.op = "delete_file"
              /\ file_calls' = <<delete_file(file_in.name, file_in.how, file_in.env)>>
              /\ cpc' = "file_done"
              /\ UNCHANGED <<file_in, local_fs, syncVars, uiVars, satVars, iptvVars, flagVars, httpVars, testVars>>

UploadDir == /\ cpc = "file_call"
             /\ file_in.op = "upload_dir"
             /\ file_calls' = upload_dir("root", file_in.tree, file_in.callback, file_in.env)
             /\ cpc' = "file_done"
             /\ UNCHANGED <<file_in, local_fs, syncVars, uiVars, satVars, iptvVars, flagVars, httpVars, testVars>>

DownloadDir == /\ cpc = "file_call"
               /\ file_in.op = "download_dir"
               /\ file_calls' = download_dir("root", file_in.tree, file_in.callback, file_in.env).calls
               /\ local_fs' = LocalAfter(local_fs, file_calls')
               /\ cpc' = "file_done"
               /\ UNCHANGED <<file_in, syncVars, uiVars, satVars, iptvVars, flagVars, httpVars, testVars>>

InitFile == /\ SyncIdle
            /\ UiIdle
            /\ SatIdle
            /\ IptvIdle
            /\ FlagIdle
            /\ HttpIdle
            /\ TestIdle
            /\ cpc = "file_call"
            /\ file_in \in FileIns
            /\ file_calls = <<>>
            /\ local_fs \in [FileNames -> Contents]

NextFile == DownloadFile \/ SendFile \/ DeleteFile \/ UploadDir \/ DownloadDir

SpecFile == InitFile /\ [][NextFile]_vars

SingleFileOps == {"download_file", "send_file", "delete_file"}

(* C25: every call of download_file, send_file or delete_file that returns  *)
(* reports exactly one status line: through the callback when one is given, *)
(* to the log otherwise; on success, on a rejected transfer, for a missing  *)
(* local file, and inside upload_dir and download_dir.                      *)
C25_OneStatusLinePerCall ==
    (cpc = "file_done") =>
        \A k \in DOMAIN file_calls :
            (file_calls[k].op \in SingleFileOps /\ file_calls[k].raised \in {"none", "OSError"}) =>
                file_calls[k].reports = <<IF file_calls[k].callback THEN "callback" ELSE "log">>

(* What the operations do report once: a successful download_file, through  *)
(* the callback when one is given and to the log otherwise; a successful    *)
(* send_file or delete_file that was given a callback, through it.          *)
SuccessReportedOnce ==
    (cpc = "file_done") =>
        \A k \in DOMAIN file_calls :
            LET c == file_calls[k]
            IN  /\ (c.op = "download_file" /\ c.resp = "226") =>
                       c.reports = <<IF c.callback THEN "callback" ELSE "log">>
                /\ (c.op \in {"send_file", "delete_file"} /\ c.resp \in {"226", "250"} /\ c.callback) =>
                       c.reports = <<"callback">>

(* C28: a download_file whose retrieval the receiver rejects with a         *)
(* permanent error leaves a local copy that was there with its content and  *)
(* creates no local file.                                                   *)
C28_FailedDownloadKeepsLocal ==
    [][(/\ cpc = "file_call"
        /\ cpc' = "file_done"
        /\ file_in.op = "download_file"
        /\ file_calls'[1].resp = "550") => local_fs' = local_fs]_vars

====
